---- MODULE Spec2Model ----
(***************************************************************************)
(* Journeyman data-protection backend: the field cipher (DataEncryption   *)
(* over Fernet and PBKDF2-HMAC-SHA256), the retention policy, and the      *)
(* Flask service that owns the process-wide cipher.                        *)
(*                                                                         *)
(* Python values are represented as follows.  A str is a sequence of code  *)
(* points, a bytes object a sequence of numbers in 0..255, None is the     *)
(* value None below.  A call returns Ok(v) or Raise(e), e naming the       *)
(* exception class.                                                        *)
(***************************************************************************)
EXTENDS Integers, Sequences, FiniteSets, TLC

\* ------------------------------------------------------------------ bounds
\* Longest plaintext, in characters.
MaxLen == 2
\* The clock runs over 0..MaxClock: seconds where Fernet reads it, days
\* where the retention policy does.
MaxClock == 1
\* Calls on the retention manager start while its log is shorter than this.
MaxLog == 2
MaxRows == 3

\* --------------------------------------------------------- Python values
None == <<-1>>
Ok(v) == [ok |-> TRUE, val |-> v, err |-> "none"]
Raise(e) == [ok |-> FALSE, val |-> <<>>, err |-> e]
\* Truth value of an Optional[str] or bytes: None and the empty value are false.
Truthy(x) == x # None /\ x # <<>>

Min(a, b) == IF a <= b THEN a ELSE b

\* ------------------------------------------------------------ str.encode
\* UTF-8 of one code point (code points below 65536, no surrogates).
Utf8Char(cp) ==
    IF cp < 128 THEN <<cp>>
    ELSE IF cp < 2048 THEN <<192 + (cp \div 64), 128 + (cp % 64)>>
    ELSE <<224 + (cp \div 4096), 128 + ((cp \div 64) % 64), 128 + (cp % 64)>>

\* str.encode(): the characters' encodings, concatenated (by halves, which
\* keeps the evaluation shallow).
RECURSIVE Utf8Range(_, _, _)
Utf8Range(s, lo, hi) ==
    IF lo > hi THEN <<>>
    ELSE IF lo = hi THEN Utf8Char(s[lo])
    ELSE Utf8Range(s, lo, (lo + hi) \div 2) \o Utf8Range(s, (lo + hi) \div 2 + 1, hi)
Utf8Encode(s) == Utf8Range(s, 1, Len(s))

\* bytes.decode(): the code points, or <<-2>> when the bytes are not UTF-8.
BadUtf8 == <<-2>>
IsCont(b) == b >= 128 /\ b < 192
RECURSIVE Utf8Parse(_)
Utf8Parse(b) ==
    IF b = <<>> THEN <<>>
    ELSE LET b1 == b[1]
             n == IF b1 < 128 THEN 1
                  ELSE IF b1 >= 194 /\ b1 < 224 THEN 2
                  ELSE IF b1 >= 224 /\ b1 < 240 THEN 3
                  ELSE 0
         IN IF n = 0 \/ Len(b) < n THEN BadUtf8
            ELSE IF n >= 2 /\ ~IsCont(b[2]) THEN BadUtf8
            ELSE IF n = 3 /\ ~IsCont(b[3]) THEN BadUtf8
            ELSE LET cp == IF n = 1 THEN b1
                           ELSE IF n = 2 THEN (b1 - 192) * 64 + (b[2] - 128)
                           ELSE (b1 - 224) * 4096 + (b[2] - 128) * 64 + (b[3] - 128)
                     rest == Utf8Parse(SubSeq(b, n + 1, Len(b)))
                 IN IF n = 3 /\ (cp < 2048 \/ (cp >= 55296 /\ cp < 57344)) THEN BadUtf8
                    ELSE IF rest = BadUtf8 THEN BadUtf8
                    ELSE <<cp>> \o rest
\* ASCII bytes decode to themselves; anything else is parsed.
Utf8Decode(b) == IF \A i \in 1..Len(b) : b[i] < 128 THEN b ELSE Utf8Parse(b)

\* ---------------------------------------------------------------- base64
\* The URL-safe alphabet, as ASCII codes: A-Z a-z 0-9 - _
B64Alphabet ==
    [i \in 1..64 |->
        IF i <= 26 THEN 64 + i
        ELSE IF i <= 52 THEN 70 + i
        ELSE IF i <= 62 THEN i - 5
        ELSE IF i = 63 THEN 45 ELSE 95]
PadChar == 61

\* base64.urlsafe_b64encode
urlsafe_b64encode(bytes) ==
    LET n == Len(bytes)
        at(k) == IF k <= n THEN bytes[k] ELSE 0
        sextet(g, pos) ==
            LET b0 == at(3 * g + 1)
                b1 == at(3 * g + 2)
                b2 == at(3 * g + 3)
            IN IF pos = 0 THEN b0 \div 4
               ELSE IF pos = 1 THEN (b0 % 4) * 16 + (b1 \div 16)
               ELSE IF pos = 2 THEN (b1 % 16) * 4 + (b2 \div 64)
               ELSE b2 % 64
    IN [k \in 1..(4 * ((n + 2) \div 3)) |->
          LET g == (k - 1) \div 4
              pos == (k - 1) % 4
          IN IF pos = 2 /\ 3 * g + 2 > n THEN PadChar
             ELSE IF pos = 3 /\ 3 * g + 3 > n THEN PadChar
             ELSE B64Alphabet[sextet(g, pos) + 1]]

\* The value of a base64 digit, -1 for a character outside both alphabets.
\* urlsafe_b64decode maps - and _ to + and / and then accepts + and / too.
B64Value(c) ==
    IF c >= 65 /\ c <= 90 THEN c - 65
    ELSE IF c >= 97 /\ c <= 122 THEN c - 71
    ELSE IF c >= 48 /\ c <= 57 THEN c + 4
    ELSE IF c = 45 \/ c = 43 THEN 62
    ELSE IF c = 95 \/ c = 47 THEN 63
    ELSE -1

\* binascii.a2b_base64 in its default, non-strict mode.  Characters outside
\* the alphabet are skipped.  A pad character ends the input when it
\* completes a group: it follows three digits of the group, or two digits
\* and an earlier pad with no digit in between.  Other pad characters are
\* skipped.  Input that ends inside a group is an error.  The unused low
\* bits of the last digit are dropped.
BadB64 == <<-3>>
IsB64Digit(c) == c # PadChar /\ B64Value(c) >= 0
DigitsBefore(chars, p) == Cardinality({i \in 1..(p - 1) : IsB64Digit(chars[i])})
PadPositions(chars) == {p \in 1..Len(chars) : chars[p] = PadChar}
PadEnds(chars, pads, p, n) ==
    \/ n % 4 = 3
    \/ /\ n % 4 = 2
       /\ \E p2 \in pads : p2 < p /\ DigitsBefore(chars, p2) = n
B64Ends(chars, pads) == {p \in pads : PadEnds(chars, pads, p, DigitsBefore(chars, p))}
MinOrZero(S) == IF S = {} THEN 0 ELSE CHOOSE p \in S : \A p2 \in S : p <= p2
\* Where the input ends: the position of the ending pad, 0 if there is none.
B64Stop(chars) == MinOrZero(B64Ends(chars, PadPositions(chars)))

B64Check(ds, stop) ==
    IF stop = 0 /\ Len(ds) % 4 # 0 THEN BadB64
    ELSE [k \in 1..Len(ds) |-> B64Value(ds[k])]
B64Collect(chars, stop) ==
    B64Check(SelectSeq(IF stop = 0 THEN chars ELSE SubSeq(chars, 1, stop - 1), IsB64Digit), stop)
\* The digits of the input, or BadB64.
B64Digits(chars) == B64Collect(chars, B64Stop(chars))

\* The byte made of the bits of two adjacent digits, o the bit offset of
\* the byte in the first.
B64Join(hi, lo, o) ==
    IF o = 0 THEN hi * 4 + (lo \div 16)
    ELSE IF o = 2 THEN (hi % 16) * 16 + (lo \div 4)
    ELSE (hi % 4) * 64 + lo
B64Bytes(d) ==
    IF d = BadB64 THEN BadB64
    ELSE [j \in 1..((Len(d) * 6) \div 8) |->
            B64Join(d[((j - 1) * 8) \div 6 + 1], d[((j - 1) * 8) \div 6 + 2], ((j - 1) * 8) % 6)]

\* base64.urlsafe_b64decode: the bytes, or BadB64 for binascii.Error.
urlsafe_b64decode(chars) == B64Bytes(B64Digits(chars))

\* -------------------------------------------------- library constants
\* SHA-256's block length: HMAC zero-pads a shorter key to this length.
HmacBlockLen == 64
\* Fernet's token layout: version byte 0x80, big-endian timestamp, IV of one
\* AES block, AES-CBC ciphertext, HMAC-SHA256 tag.  The library's widths are
\* 8, 16 and 32 bytes; the model keeps the layout and narrows the fields.
FernetVersion == 128
TsLen == 1
AesBlock == 2
TagLen == 2
\* A Fernet key: 32 bytes, the signing key then the encryption key.
FernetKeyLen == 32

\* encryption.py: the KDF's parameters.
KdfLength == 32
KdfSalt == <<106, 111, 117, 114, 110, 101, 121, 109, 97, 110, 95, 115, 97, 108, 116>>
KdfIterations == 100000

\* Sums over s[lo..hi], by halves.
RECURSIVE SumRange(_, _, _)
SumRange(s, lo, hi) ==
    IF lo > hi THEN 0
    ELSE IF lo = hi THEN s[lo]
    ELSE SumRange(s, lo, (lo + hi) \div 2) + SumRange(s, (lo + hi) \div 2 + 1, hi)
SumSeq(s) == SumRange(s, 1, Len(s))
WeightedSum(s) == SumSeq([i \in 1..Len(s) |-> i * s[i]])

\* ----------------------------------------------------- PBKDF2HMAC.derive
\* HMAC's key preparation (RFC 2104): a key of at most one block is padded
\* with zero bytes to the block length.  Keys of the model are shorter than
\* a block, so the hashing of longer keys does not arise.
HmacKeyBlock(key) == [i \in 1..HmacBlockLen |-> IF i <= Len(key) THEN key[i] ELSE 0]

\* SHA-256 is not evaluated: the pseudo-random function is stood for by a
\* mixing of the prepared key block, the salt and the iteration count that
\* has no collision among the keys of the model.  What is exact is what the
\* function is applied to: the zero-padded key block and the parameters.
PrfBytes(length, salt, iterations, blk, w) ==
    [i \in 1..length |->
        (blk[i] + blk[i + 32] + w + salt[((i - 1) % Len(salt)) + 1] + iterations) % 256]
PrfMix(length, salt, iterations, blk) ==
    PrfBytes(length, salt, iterations, blk, WeightedSum(blk))

\* A derivation that leaves the key material out: every passphrase gets
\* the key of the salt alone.
DeriveFromSaltOnly(length, salt, iterations, key_material) ==
    PrfMix(length, salt, iterations, HmacKeyBlock(<<>>))

\* PBKDF2HMAC(SHA256, length, salt, iterations).derive(key_material)
PBKDF2HMAC_derive(length, salt, iterations, key_material) ==
    PrfMix(length, salt, iterations, HmacKeyBlock(key_material))

\* ------------------------------------------------------------- Fernet
\* PKCS7 padding to the AES block: n bytes of value n, n in 1..AesBlock.
PadBytes(n) == [i \in 1..n |-> n]
PKCS7Pad(data) == data \o PadBytes(AesBlock - (Len(data) % AesBlock))

BadPad == <<-4>>
PadOk(padded, n) ==
    /\ n >= 1
    /\ n <= AesBlock
    /\ \A i \in (Len(padded) - n + 1)..Len(padded) : padded[i] = n
PKCS7Unpad(padded) ==
    IF padded = <<>> \/ Len(padded) % AesBlock # 0 THEN BadPad
    ELSE IF ~PadOk(padded, padded[Len(padded)]) THEN BadPad
    ELSE SubSeq(padded, 1, Len(padded) - padded[Len(padded)])

\* AES-128 in CBC mode, with the block cipher stood for by the byte-wise
\* addition of the key (and CBC's xor by addition): each ciphertext block
\* depends on its plaintext block, the key and the previous ciphertext
\* block (the IV for the first), and decryption inverts it under the same
\* key only.
KeyByte(key, j) == key[((j - 1) % Len(key)) + 1]
RECURSIVE CbcChain(_, _, _)
CbcEncrypt(key, prev, padded) ==
    IF padded = <<>> THEN <<>>
    ELSE CbcChain(key, [j \in 1..AesBlock |-> (padded[j] + prev[j] + KeyByte(key, j)) % 256],
                  SubSeq(padded, AesBlock + 1, Len(padded)))
CbcChain(key, c, rest) == c \o CbcEncrypt(key, c, rest)

CbcPrev(iv, ct, m) == IF m <= AesBlock THEN iv[m] ELSE ct[m - AesBlock]
CbcDecrypt(key, iv, ct) ==
    [m \in 1..Len(ct) |->
        (ct[m] + 512 - CbcPrev(iv, ct, m) - KeyByte(key, ((m - 1) % AesBlock) + 1)) % 256]

\* HMAC-SHA256, stood for by a keyed checksum of the message and its
\* length: the tag changes with the key, with the length and with any
\* change to the bytes that one altered character of a token can cause.
HmacBytes(key, c) == [i \in 1..TagLen |-> (KeyByte(key, i) + c) % 256]
HmacTag(key, msg) == HmacBytes(key, SumSeq(msg) + Len(msg))

\* int.to_bytes(TsLen, "big")
RECURSIVE Shr8(_, _)
Shr8(x, n) == IF n = 0 THEN x ELSE Shr8(x \div 256, n - 1)
TsBytes(ts) == [j \in 1..TsLen |-> Shr8(ts, TsLen - j) % 256]

\* Fernet(key): the key is URL-safe base64 of 32 bytes, split into the
\* signing key and the encryption key.
FernetFromRaw(raw) ==
    IF raw = BadB64 \/ Len(raw) # FernetKeyLen THEN Raise("ValueError")
    ELSE Ok([signing_key |-> SubSeq(raw, 1, FernetKeyLen \div 2),
             encryption_key |-> SubSeq(raw, FernetKeyLen \div 2 + 1, FernetKeyLen)])
Fernet(key) == FernetFromRaw(urlsafe_b64decode(key))

\* Fernet.encrypt(data) at time ts with the IV iv drawn from os.urandom.
FernetSeal(f, basic_parts) ==
    urlsafe_b64encode(basic_parts \o HmacTag(f.signing_key, basic_parts))
Fernet_encrypt(f, data, iv, ts) ==
    FernetSeal(f, <<FernetVersion>> \o TsBytes(ts) \o iv
                  \o CbcEncrypt(f.encryption_key, iv, PKCS7Pad(data)))

\* Fernet.decrypt(token) without ttl: the plaintext bytes or InvalidToken.
\* The token is decoded, its version byte and length are checked, the tag
\* over everything before it is verified, and only then is it decrypted.
FernetUnpadded(plain) == IF plain = BadPad THEN Raise("InvalidToken") ELSE Ok(plain)
\* A decryption that does not compare the tag.
FernetUnverified(f, body, tag) ==
    IF Len(body) < 1 + TsLen + AesBlock THEN Raise("InvalidToken")
    ELSE FernetUnpadded(PKCS7Unpad(CbcDecrypt(
             f.encryption_key,
             SubSeq(body, 1 + TsLen + 1, 1 + TsLen + AesBlock),
             SubSeq(body, 1 + TsLen + AesBlock + 1, Len(body)))))
FernetVerified(f, body, tag) ==
    IF HmacTag(f.signing_key, body) # tag THEN Raise("InvalidToken")
    ELSE IF Len(body) < 1 + TsLen + AesBlock THEN Raise("InvalidToken")
    ELSE FernetUnpadded(PKCS7Unpad(CbcDecrypt(
             f.encryption_key,
             SubSeq(body, 1 + TsLen + 1, 1 + TsLen + AesBlock),
             SubSeq(body, 1 + TsLen + AesBlock + 1, Len(body)))))
FernetDecryptData(f, data) ==
    IF data = BadB64 THEN Raise("InvalidToken")
    ELSE IF data = <<>> \/ data[1] # FernetVersion THEN Raise("InvalidToken")
    ELSE IF Len(data) < 1 + TsLen THEN Raise("InvalidToken")
    ELSE IF Len(data) < TagLen THEN Raise("InvalidToken")
    ELSE FernetVerified(f, SubSeq(data, 1, Len(data) - TagLen),
                        SubSeq(data, Len(data) - TagLen + 1, Len(data)))
Fernet_decrypt(f, token) == FernetDecryptData(f, urlsafe_b64decode(token))

\* ================================================================ state
VARIABLES
    environ,     \* os.environ: ENCRYPTION_KEY, ADMIN_TOKEN, API_KEY and, for the
                 \* webhook, WEBHOOK_SECRET (None: unset)
    now,         \* the system clock
    ciphers,     \* the DataEncryption instances constructed so far
    issued,      \* history: the latest encrypt calls that returned a token
    last,        \* the last call on the cipher API and what it returned
    app,         \* app.py's module state: its phase and its global `encryption`
    request,     \* the last HTTP request the service received
    response,    \* the last HTTP response of the service
    policy,      \* the last call on RetentionPolicy and what it returned
    deletion_log, \* DataRetentionManager.deletion_log
    cleanup,     \* the last call on the DataRetentionManager and what it did
    RetentionPolicy, \* the class object: its attribute RETENTION_PERIODS
    consentManager,  \* a ConsentManager object and the last call on it
    userConsent,     \* a UserConsent object and the last call on it
    Database,        \* the class attribute Database._pool and the database server
    gdpr,            \* the last call on GDPRCompliance or Database and its result
    threads          \* the threads inside initialize_pool and get_connection

vars == <<environ, now, ciphers, issued, last, app, request, response, policy, deletion_log, cleanup,
          RetentionPolicy, consentManager, userConsent, Database, gdpr, threads>>
consentVars == <<consentManager, userConsent>>
databaseVars == <<Database, gdpr, threads>>
gdprVars == <<consentVars, databaseVars>>
cipherVars == <<ciphers, issued, last>>
managerVars == <<deletion_log, cleanup>>
appVars == <<app, request, response>>
coreVars == <<environ, now, cipherVars, appVars, policy, managerVars, RetentionPolicy>>

\* Instance names, the passphrases and plaintext characters of the model:
\* "k", "k\x00" and "q"; "A" and the two-byte character e-acute.
Insts == {1, 2}
KeyK == <<107>>
KeyKNul == <<107, 0>>
\* os.urandom for the IV: two possible draws.
URandomIv == {[i \in 1..AesBlock |-> 7], [i \in 1..AesBlock |-> 200]}
\* os.urandom(32), for generate_key: two possible draws.
URandom32 == {[i \in 1..32 |-> 0], [i \in 1..32 |-> 255]}

\* The plaintexts: the empty string and the strings of up to MaxLen
\* characters that alternate the two-byte character and the ASCII one
\* (one to several cipher blocks).
Plaintexts == {[i \in 1..n |-> IF i % 2 = 1 THEN 233 ELSE 65] : n \in 0..MaxLen}

\* os.environ.get(name, default)
EnvGet(name, default) == IF environ[name] = None THEN default ELSE environ[name]
\* os.getenv(name)
GetEnv(name) == environ[name]

\* What a method call returned or raised, and how many times it called the
\* underlying Fernet object.
Call(res, n) == [ok |-> res.ok, val |-> res.val, err |-> res.err, cipher_calls |-> n]

\* ------------------------------------------------------- DataEncryption
NullFernet == [signing_key |-> <<>>, encryption_key |-> <<>>]

\* DataEncryption.__init__(encryption_key): the new object's fields, or the
\* exception raised.  self.key is the explicit argument when it is truthy
\* and the environment's ENCRYPTION_KEY (default '') otherwise.
InitCipher(key, f) ==
    IF ~f.ok
    THEN [ok |-> FALSE, err |-> f.err, self |-> [key |-> key, cipher |-> NullFernet]]
    ELSE [ok |-> TRUE, err |-> "none", self |-> [key |-> key, cipher |-> f.val]]
\* A constructor without the check of the key: an empty key is derived from
\* like any other.
InitKeyUnchecked(key) ==
    InitCipher(key, Fernet(urlsafe_b64encode(
                        PBKDF2HMAC_derive(KdfLength, KdfSalt, KdfIterations, key))))
\* A constructor that salts the derivation with the time of the call.
InitKeyClockSalted(key) ==
    IF ~Truthy(key)
    THEN [ok |-> FALSE, err |-> "ValueError", self |-> [key |-> key, cipher |-> NullFernet]]
    ELSE InitCipher(key, Fernet(urlsafe_b64encode(
                            PBKDF2HMAC_derive(KdfLength, <<now>> \o KdfSalt, KdfIterations, key))))
InitKey(key) ==
    IF ~Truthy(key)
    THEN [ok |-> FALSE, err |-> "ValueError", self |-> [key |-> key, cipher |-> NullFernet]]
    ELSE InitCipher(key, Fernet(urlsafe_b64encode(
                            PBKDF2HMAC_derive(KdfLength, KdfSalt, KdfIterations, key))))
\* A constructor that prefers ENCRYPTION_KEY to its argument.
DataEncryption_init_env_first(encryption_key) ==
    InitKey(IF Truthy(EnvGet("ENCRYPTION_KEY", <<>>))
            THEN Utf8Encode(EnvGet("ENCRYPTION_KEY", <<>>))
            ELSE IF Truthy(encryption_key) THEN Utf8Encode(encryption_key) ELSE <<>>)
\* A constructor whose derivation is salted with the time of the call.
DataEncryption_init_salted_per_call(encryption_key) ==
    InitKeyClockSalted(IF Truthy(encryption_key)
                       THEN Utf8Encode(encryption_key)
                       ELSE Utf8Encode(EnvGet("ENCRYPTION_KEY", <<>>)))
DataEncryption_init(encryption_key) ==
    InitKey(IF Truthy(encryption_key)
            THEN Utf8Encode(encryption_key)
            ELSE Utf8Encode(EnvGet("ENCRYPTION_KEY", <<>>)))

\* An encrypt that hands the cipher the code points as bytes instead of the
\* UTF-8 encoding.
encrypt_unencoded(self, plaintext, iv, ts) ==
    IF ~Truthy(plaintext) THEN Call(Ok(<<>>), 0)
    ELSE Call(Ok(Utf8Decode(Fernet_encrypt(self.cipher, plaintext, iv, ts))), 1)

\* An encrypt that hands its argument back.
encrypt_passthrough(self, plaintext, iv, ts) == Call(Ok(plaintext), 0)
\* An encrypt that keeps one nonce for every call instead of the call's draw.
encrypt_cached_nonce(self, plaintext, iv, ts) ==
    IF ~Truthy(plaintext) THEN Call(Ok(<<>>), 0)
    ELSE Call(Ok(Utf8Decode(Fernet_encrypt(self.cipher, Utf8Encode(plaintext),
                                           [i \in 1..AesBlock |-> 7], ts))), 1)

\* DataEncryption.encrypt(plaintext); iv and ts are what os.urandom and
\* time.time give Fernet during the call.
encrypt(self, plaintext, iv, ts) ==
    IF ~Truthy(plaintext) THEN Call(Ok(<<>>), 0)
    ELSE Call(Ok(Utf8Decode(Fernet_encrypt(self.cipher, Utf8Encode(plaintext), iv, ts))), 1)

\* DataEncryption.decrypt(ciphertext)
DecodeText(text) ==
    IF text = BadUtf8 THEN Call(Raise("UnicodeDecodeError"), 1) ELSE Call(Ok(text), 1)
DecodeResult(r) == IF ~r.ok THEN Call(r, 1) ELSE DecodeText(Utf8Decode(r.val))
\* A decrypt without the short-circuit: the empty string goes to the cipher.
decrypt_unguarded(self, ciphertext) ==
    DecodeResult(Fernet_decrypt(self.cipher, Utf8Encode(ciphertext)))
\* A decrypt that swallows the cipher's error and returns the empty string.
Swallowed(r) == IF r.ok THEN r ELSE Call(Ok(<<>>), 1)
decrypt_masking(self, ciphertext) ==
    IF ~Truthy(ciphertext) THEN Call(Ok(<<>>), 0)
    ELSE Swallowed(DecodeResult(Fernet_decrypt(self.cipher, Utf8Encode(ciphertext))))
decrypt(self, ciphertext) ==
    IF ~Truthy(ciphertext) THEN Call(Ok(<<>>), 0)
    ELSE DecodeResult(Fernet_decrypt(self.cipher, Utf8Encode(ciphertext)))

\* DataEncryption.generate_key(), r being os.urandom(32)
generate_key(r) == Utf8Decode(urlsafe_b64encode(r))

\* encrypt_field(value) and decrypt_field(value): each builds a cipher from
\* the environment (DataEncryption() with no argument) and uses it once.
FieldEncrypt(r, value, iv, ts) ==
    IF ~r.ok THEN Call(Raise(r.err), 0) ELSE encrypt(r.self, value, iv, ts)
encrypt_field(value, iv, ts) == FieldEncrypt(DataEncryption_init(None), value, iv, ts)
FieldDecrypt(r, value) ==
    IF ~r.ok THEN Call(Raise(r.err), 0) ELSE decrypt(r.self, value)
decrypt_field(value) == FieldDecrypt(DataEncryption_init(None), value)

\* The arguments a caller may pass to the constructor.
KeyG == generate_key([i \in 1..32 |-> 255])
KeyArgs == {None, <<>>, KeyKNul, KeyG}
\* The values ENCRYPTION_KEY may have in the process environment.
EnvKeys == {None, <<>>, KeyK}

\* ------------------------------------------------------ RetentionPolicy
\* Dates are naive UTC datetimes, as everywhere in the program, counted in
\* days (proleptic Gregorian ordinals); timedelta(days = d) is d.
DataCategory == {"user_profile", "activity_logs", "financial_records",
                 "marketing_data", "temporary_data", "archived_data"}
timedelta(days) == days
RETENTION_PERIODS ==
    [c \in {"user_profile", "activity_logs", "financial_records",
            "marketing_data", "temporary_data"} |->
        CASE c = "user_profile" -> timedelta(7 * 365)
          [] c = "activity_logs" -> timedelta(90)
          [] c = "financial_records" -> timedelta(7 * 365)
          [] c = "marketing_data" -> timedelta(2 * 365)
          [] c = "temporary_data" -> timedelta(30)]
\* dict.get(key, default)
DictGet(d, key, default) == IF key \in DOMAIN d THEN d[key] ELSE default

\* A lookup whose default is no retention at all.
get_retention_period_zero_default(category) ==
    DictGet(RetentionPolicy.RETENTION_PERIODS, category, timedelta(0))
\* RetentionPolicy.get_retention_period(category): cls.RETENTION_PERIODS is
\* read from the class object at the time of the call.
get_retention_period(category) ==
    DictGet(RetentionPolicy.RETENTION_PERIODS, category, timedelta(365))

\* datetime.min and datetime.max as ordinals (0001-01-01 and 9999-12-31), and
\* datetime + timedelta, which raises OverflowError outside them.
MinOrdinal == 1
MaxOrdinal == 3652059
DatetimeAdd(dt, td) ==
    IF dt + td < MinOrdinal \/ dt + td > MaxOrdinal
    THEN [ok |-> FALSE, err |-> "OverflowError", day |-> 0]
    ELSE [ok |-> TRUE, err |-> "none", day |-> dt + td]

\* RetentionPolicy.is_expired(created_at, category), utcnow being what
\* datetime.utcnow() returns during the call.
\* A comparison that is not strict.
ExpiredFrom(expiry_date, utcnow) ==
    IF ~expiry_date.ok
    THEN [ok |-> FALSE, err |-> expiry_date.err, expired |-> FALSE]
    ELSE [ok |-> TRUE, err |-> "none", expired |-> utcnow >= expiry_date.day]
\* A comparison that finds a record expired on the day after its expiry
\* date only.
ExpiredOnTheDay(expiry_date, utcnow) ==
    IF ~expiry_date.ok
    THEN [ok |-> FALSE, err |-> expiry_date.err, expired |-> FALSE]
    ELSE [ok |-> TRUE, err |-> "none", expired |-> utcnow = expiry_date.day + 1]
ExpiredAfter(expiry_date, utcnow) ==
    IF ~expiry_date.ok
    THEN [ok |-> FALSE, err |-> expiry_date.err, expired |-> FALSE]
    ELSE [ok |-> TRUE, err |-> "none", expired |-> utcnow > expiry_date.day]
is_expired(created_at, category, utcnow) ==
    ExpiredAfter(DatetimeAdd(created_at, get_retention_period(category)), utcnow)

\* The day the clock starts at (2026-01-01), and datetime.utcnow().
Today == 739617
UtcNow == Today + now

\* The categories a caller may pass: the enumeration's members and a value
\* that is not one of them.
Categories == DataCategory \cup {"unmapped"}
\* The creation dates a caller may pass: around the expiry boundary of every
\* category, and the extremes of datetime.
CreatedAts ==
    {UtcNow - get_retention_period(c) + d : c \in Categories, d \in {-1, 0, 1}}
        \cup {MinOrdinal, MaxOrdinal}

NoCall == [op |-> "none", inst |-> 0, arg |-> <<>>, ref |-> <<>>, res |-> Call(Ok(<<>>), 0)]
NoPolicyCall == [op |-> "none", created_at |-> 0, category |-> "none", utcnow |-> 0,
                 ok |-> TRUE, err |-> "none", days |-> 0, expired |-> FALSE]

\* ------------------------------------------------- DataRetentionManager
\* DataCategory in definition order, the order `for category in DataCategory`
\* visits it.
DataCategoryOrder == <<"user_profile", "activity_logs", "financial_records",
                       "marketing_data", "temporary_data", "archived_data">>

\* scan_expired_data(category): the list of expired record ids.  The body in
\* the repository returns the empty list; delete_expired_data calls it
\* through self, so a manager that overrides it hands back what its query
\* finds, or the query's error.
scan_expired_data(category) == Ok(<<>>)
ScanOutcomes ==
    {scan_expired_data(c) : c \in DataCategory}
        \cup {Ok(<<"r1">>), Ok(<<"r2", "r1">>), Raise("DatabaseError")}

\* delete_expired_data(category, dry_run): what it returns or raises and the
\* deletion_log it leaves; expired is what scan_expired_data gave the call
\* and utcnow what datetime.utcnow() gives it.
DryRunDefault == TRUE
\* The argument as the call passes it: <<>> when it is left out.
Omitted == <<>>
DryRunArg(dry_run) == IF dry_run = Omitted THEN DryRunDefault ELSE dry_run[1]
Counted(n, log) == [ok |-> TRUE, err |-> "none", count |-> n, deletion_log |-> log]
Failed(e, log) == [ok |-> FALSE, err |-> e, count |-> 0, deletion_log |-> log]
\* An audit entry without the record's id.
DeletionEntryAnonymous(record_id, category, utcnow) ==
    [record_id |-> "", category |-> category, deleted_at |-> utcnow]
DeletionEntry(record_id, category, utcnow) ==
    [record_id |-> record_id, category |-> category, deleted_at |-> utcnow]
DeletionEntries(expired_records, category, utcnow) ==
    [k \in 1..Len(expired_records) |-> DeletionEntry(expired_records[k], category, utcnow)]
\* A deletion that ignores dry_run.
delete_expired_data_for_real(log, category, dry_run, expired, utcnow) ==
    IF ~expired.ok THEN Failed(expired.err, log)
    ELSE Counted(Len(expired.val), log \o DeletionEntries(expired.val, category, utcnow))
delete_expired_data(log, category, dry_run, expired, utcnow) ==
    IF ~expired.ok THEN Failed(expired.err, log)
    ELSE IF DryRunArg(dry_run) THEN Counted(Len(expired.val), log)
    ELSE Counted(Len(expired.val), log \o DeletionEntries(expired.val, category, utcnow))

\* One pass of a call, as the trace keeps it.
Pass(category, dry_run, r) ==
    [category |-> category, dry_run |-> dry_run, ok |-> r.ok, count |-> r.count]

\* schedule_retention_cleanup(): every category in order, archived data
\* skipped, an error of one pass logged and the loop continued.  scans gives
\* what scan_expired_data returns for each category during the run.
\* A cleanup that skips nothing.
SkipsNothing(category) == FALSE
Skipped(category) == category = "archived_data"
RECURSIVE CleanupFrom(_, _, _, _, _)
\* A cleanup that ends at the first pass that raises.
CleanupPassStopping(k, r, passes, scans, utcnow) ==
    IF ~r.ok
    THEN [deletion_log |-> r.deletion_log,
          passes |-> Append(passes, Pass(DataCategoryOrder[k], FALSE, r))]
    ELSE CleanupFrom(k + 1, r.deletion_log,
                     Append(passes, Pass(DataCategoryOrder[k], FALSE, r)), scans, utcnow)
CleanupPass(k, r, passes, scans, utcnow) ==
    CleanupFrom(k + 1, r.deletion_log,
                Append(passes, Pass(DataCategoryOrder[k], FALSE, r)), scans, utcnow)
CleanupFrom(k, log, passes, scans, utcnow) ==
    IF k > Len(DataCategoryOrder) THEN [deletion_log |-> log, passes |-> passes]
    ELSE IF Skipped(DataCategoryOrder[k]) THEN CleanupFrom(k + 1, log, passes, scans, utcnow)
    ELSE CleanupPass(k, delete_expired_data(log, DataCategoryOrder[k], <<FALSE>>,
                                            scans[DataCategoryOrder[k]], utcnow),
                     passes, scans, utcnow)
schedule_retention_cleanup(log, scans, utcnow) == CleanupFrom(1, log, <<>>, scans, utcnow)

\* What the scans of one cleanup run may return: what the repository's scan
\* returns, or one record for every category but one, which has another
\* outcome.
ScanRuns ==
    {[c \in DataCategory |-> scan_expired_data(c)]}
        \cup {[c \in DataCategory |-> IF c = x THEN o ELSE Ok(<<"r1">>)] :
                 x \in DataCategory, o \in ScanOutcomes}

NoCleanup == [op |-> "none", category |-> "none", dry_run |-> Omitted, scan |-> Ok(<<>>),
              ok |-> TRUE, err |-> "none", count |-> 0, passes |-> <<>>, before |-> <<>>]

\* ------------------------------------------------------ ConsentManager
ConsentStatus == [PENDING |-> "pending", GRANTED |-> "granted", DENIED |-> "denied",
                  REVOKED |-> "revoked"]
\* ConsentManager(user_id)
ConsentManager_init(user_id) == [user_id |-> user_id]
\* The metadata argument: None, or a dict that may hold the two keys (None
\* where it does not); a dict is true when it holds a key.
NoMetadata == [dict |-> FALSE, ip_address |-> None, user_agent |-> None]
Metadatas ==
    {NoMetadata,
     [dict |-> TRUE, ip_address |-> None, user_agent |-> None],
     [dict |-> TRUE, ip_address |-> <<49>>, user_agent |-> None]}
MetadataTrue(metadata) ==
    metadata.dict /\ (metadata.ip_address # None \/ metadata.user_agent # None)
NoRecord == [user_id |-> "", consent_type |-> "", purpose |-> "", legal_basis |-> "",
             status |-> "", at |-> 0, ip_address |-> None, user_agent |-> None]
\* request_consent(consent_type, purpose, legal_basis): the dict returned
request_consent(self, consent_type, purpose, legal_basis, utcnow) ==
    [NoRecord EXCEPT !.user_id = self.user_id, !.consent_type = consent_type,
                     !.purpose = purpose, !.legal_basis = legal_basis,
                     !.status = ConsentStatus.PENDING, !.at = utcnow]
\* A record_consent that records every decision as granted.
record_consent_granted(self, consent_type, granted, metadata, utcnow) ==
    [NoRecord EXCEPT !.user_id = self.user_id, !.consent_type = consent_type,
                     !.status = ConsentStatus.GRANTED, !.at = utcnow,
                     !.ip_address = IF MetadataTrue(metadata) THEN metadata.ip_address
                                    ELSE None,
                     !.user_agent = IF MetadataTrue(metadata) THEN metadata.user_agent
                                    ELSE None]
\* record_consent(consent_type, granted, metadata): the dict returned
record_consent(self, consent_type, granted, metadata, utcnow) ==
    [NoRecord EXCEPT !.user_id = self.user_id, !.consent_type = consent_type,
                     !.status = IF granted THEN ConsentStatus.GRANTED
                                ELSE ConsentStatus.DENIED,
                     !.at = utcnow,
                     !.ip_address = IF MetadataTrue(metadata) THEN metadata.ip_address
                                    ELSE None,
                     !.user_agent = IF MetadataTrue(metadata) THEN metadata.user_agent
                                    ELSE None]
\* ConsentManager.revoke_consent(consent_type)
manager_revoke_consent(self, consent_type) == TRUE
\* get_consent_status(consent_type)
get_consent_status(self, consent_type) == ConsentStatus.PENDING
\* get_all_consents() and consent_audit_log()
get_all_consents(self) == <<>>
consent_audit_log(self) == <<>>

NoConsentCall == [op |-> "none", consent_type |-> "", granted |-> FALSE, record |-> NoRecord,
                  status |-> "", returned |-> FALSE, list |-> <<>>]

\* ---------------------------------------------------------- UserConsent
ConsentType == {"essential", "analytics", "marketing", "third_party"}
\* UserConsent(user_id)
UserConsent_init(user_id) == [user_id |-> user_id, consents |-> [t \in {} |-> 0]]
\* A key a consent dict does not hold.
NoKey == -1
\* grant_consent(consent_type, purpose): self afterwards
grant_consent(self, consent_type, purpose, utcnow) ==
    [self EXCEPT !.consents =
        [t \in DOMAIN self.consents \cup {consent_type} |->
            IF t = consent_type
            THEN [granted |-> TRUE, timestamp |-> utcnow, purpose |-> purpose,
                  ip_address |-> None, revoked_at |-> NoKey]
            ELSE self.consents[t]]]
\* A revoke_consent that records the revocation of a type never granted.
revoke_consent_recording(self, consent_type, utcnow) ==
    [self EXCEPT !.consents =
        [t \in DOMAIN self.consents \cup {consent_type} |->
            IF t = consent_type
            THEN [granted |-> FALSE, timestamp |-> NoKey, purpose |-> "",
                  ip_address |-> None, revoked_at |-> utcnow]
            ELSE self.consents[t]]]
\* A revoke_consent that only stamps the record.
revoke_consent_stamping(self, consent_type, utcnow) ==
    IF consent_type \in DOMAIN self.consents
    THEN [self EXCEPT !.consents[consent_type].revoked_at = utcnow]
    ELSE self
\* revoke_consent(consent_type): self afterwards
revoke_consent(self, consent_type, utcnow) ==
    IF consent_type \in DOMAIN self.consents
    THEN [self EXCEPT !.consents[consent_type].granted = FALSE,
                      !.consents[consent_type].revoked_at = utcnow]
    ELSE self
\* has_consent(consent_type)
has_consent(self, consent_type) ==
    consent_type \in DOMAIN self.consents /\ self.consents[consent_type].granted

NoUserConsentCall == [op |-> "none", consent_type |-> "", returned |-> FALSE]

\* The objects a process starts with.
UserId == "u1"
InitConsent ==
    /\ consentManager = [self |-> ConsentManager_init(UserId), call |-> NoConsentCall,
                         called |-> {}]
    /\ userConsent = [self |-> UserConsent_init(UserId), call |-> NoUserConsentCall,
                      recent |-> [t \in ConsentType |-> <<>>]]

\* ---------------------------------------------------------------- app.py
\* A request's headers hold X-API-Key and Authorization (None: not sent);
\* its JSON body holds the field or lacks it (Missing).
Missing == <<-5>>
Bearer == <<66, 101, 97, 114, 101, 114, 32>>
TokA == <<116>>
TokB == <<117>>
StartsWith(s, prefix) ==
    Len(s) >= Len(prefix) /\ SubSeq(s, 1, Len(prefix)) = prefix
\* Python's `a or b`
OrElse(a, b) == IF Truthy(a) THEN a ELSE b

NoResponse == [endpoint |-> "none", status |-> 0, success |-> FALSE, exc |-> "none",
               error |-> "", arg |-> <<>>, value |-> <<>>, has_value |-> FALSE,
               encryption_enabled |-> FALSE, cipher_calls |-> 0, handler |-> "none"]
NoRequest == [over_limit |-> FALSE, headers |-> [x_api_key |-> None, authorization |-> None],
              body |-> Missing]
NoApp == [phase |-> "import", encryption |-> [set |-> FALSE, key |-> <<>>, cipher |-> NullFernet]]

\* A check that lets every request through when no key is configured.
KeyVerdictOpenWhenUnconfigured(api_key, expected_key) ==
    IF ~Truthy(expected_key) THEN 0
    ELSE IF ~Truthy(api_key) THEN 401
    ELSE IF api_key # expected_key THEN 403
    ELSE 0
\* require_api_key: 0 when the wrapped handler runs, or the status of abort.
StripBearer(api_key) ==
    IF Truthy(api_key) /\ StartsWith(api_key, Bearer)
    THEN SubSeq(api_key, Len(Bearer) + 1, Len(api_key))
    ELSE api_key
KeyVerdict(api_key, expected_key) ==
    IF ~Truthy(api_key) \/ ~Truthy(expected_key) THEN 401
    ELSE IF api_key # expected_key THEN 403
    ELSE 0
require_api_key(headers) ==
    KeyVerdict(StripBearer(OrElse(headers.x_api_key, headers.authorization)),
               OrElse(GetEnv("ADMIN_TOKEN"), GetEnv("API_KEY")))

\* The module-level try/except around DataEncryption(): the value of the
\* global `encryption` and whether the import goes on.
\* An initialisation that catches nothing: the error ends the import.
InitEncryptionUncaught(r) ==
    IF r.ok THEN [phase |-> "serving",
                  encryption |-> [set |-> TRUE, key |-> r.self.key, cipher |-> r.self.cipher]]
    ELSE [phase |-> "crashed", encryption |-> [set |-> FALSE, key |-> <<>>, cipher |-> NullFernet]]
InitEncryption(r) ==
    IF r.ok THEN [phase |-> "serving",
                  encryption |-> [set |-> TRUE, key |-> r.self.key, cipher |-> r.self.cipher]]
    ELSE IF r.err = "ValueError" THEN [phase |-> "serving", encryption |-> NoApp.encryption]
    ELSE [phase |-> "crashed", encryption |-> NoApp.encryption]

\* The responses of the handlers.
Aborted(endpoint, status, description, arg) ==
    [NoResponse EXCEPT !.endpoint = endpoint, !.status = status, !.error = description,
                       !.arg = arg]
NotConfigured(endpoint, arg) ==
    [NoResponse EXCEPT !.endpoint = endpoint, !.status = 500, !.arg = arg,
                       !.error = "Encryption not configured"]
\* str(e) of the exceptions the handlers catch: the missing field for
\* KeyError, the empty string for InvalidToken, and for any other
\* exception a message that its class name stands for.
StrOf(exc, endpoint) ==
    IF exc = "KeyError" THEN (IF endpoint = "encrypt" THEN "'plaintext'" ELSE "'ciphertext'")
    ELSE IF exc = "InvalidToken" THEN ""
    ELSE exc
Caught(endpoint, arg, exc, n) ==
    [NoResponse EXCEPT !.endpoint = endpoint, !.status = 400, !.arg = arg, !.exc = exc,
                       !.error = StrOf(exc, endpoint), !.cipher_calls = n]
Replied(endpoint, arg, r) ==
    IF ~r.ok THEN Caught(endpoint, arg, r.err, r.cipher_calls)
    ELSE [NoResponse EXCEPT !.endpoint = endpoint, !.status = 200, !.success = TRUE,
                            !.arg = arg, !.value = r.val, !.has_value = TRUE,
                            !.cipher_calls = r.cipher_calls]

\* encrypt_data(), the handler of POST /api/encrypt
encrypt_data(encryption, plaintext, iv, ts) ==
    IF ~encryption.set THEN NotConfigured("encrypt", plaintext)
    ELSE IF plaintext = Missing THEN Caught("encrypt", plaintext, "KeyError", 0)
    ELSE Replied("encrypt", plaintext, encrypt(encryption, plaintext, iv, ts))

\* decrypt_data(), the handler of POST /api/decrypt
decrypt_data(encryption, ciphertext) ==
    IF ~encryption.set THEN NotConfigured("decrypt", ciphertext)
    ELSE IF ciphertext = Missing THEN Caught("decrypt", ciphertext, "KeyError", 0)
    ELSE Replied("decrypt", ciphertext, decrypt(encryption, ciphertext))

\* health_check(), the handler of GET /api/health
health_check(encryption) ==
    [NoResponse EXCEPT !.endpoint = "health", !.status = 200,
                       !.encryption_enabled = encryption.set]

\* A route behind limiter.limit and require_api_key: the limiter answers
\* 429 when the caller is over its limit, then the key is checked, then
\* the handler runs.
Guarded(endpoint, over_limit, verdict, arg, reply) ==
    IF over_limit THEN Aborted(endpoint, 429, "ratelimit exceeded", arg)
    ELSE IF verdict = 401 THEN Aborted(endpoint, 401, "API key required", arg)
    ELSE IF verdict = 403 THEN Aborted(endpoint, 403, "Invalid API key", arg)
    ELSE reply

\* The headers a client may send.
Headers ==
    {[x_api_key |-> None, authorization |-> None],
     [x_api_key |-> TokA, authorization |-> None],
     [x_api_key |-> None, authorization |-> Bearer \o TokA],
     [x_api_key |-> TokB, authorization |-> Bearer \o TokA]}
\* The requests a client may send with the bodies of a set: one that finds
\* the client over its rate limit, one with each set of headers, and one
\* with each body under headers that carry the key.
Requests(bodies) ==
    {[over_limit |-> TRUE, headers |-> h, body |-> Missing] :
        h \in {[x_api_key |-> TokA, authorization |-> None]}}
    \cup {[over_limit |-> FALSE, headers |-> h, body |-> Missing] : h \in Headers}
    \cup {[over_limit |-> FALSE, headers |-> [x_api_key |-> TokA, authorization |-> None],
           body |-> b] : b \in bodies}

\* ------------------------------------------------------ OneTrust webhook
\* bytes.hex() / hexdigest(): two lowercase hexadecimal digits per byte.
HexChar(n) == IF n < 10 THEN 48 + n ELSE 87 + n
HexDigest(bytes) ==
    [i \in 1..2 * Len(bytes) |->
        HexChar(IF i % 2 = 1 THEN bytes[(i + 1) \div 2] \div 16 ELSE bytes[i \div 2] % 16)]
\* hmac.new(secret, body, hashlib.sha256).hexdigest()
HmacHexDigest(secret, body) == HexDigest(HmacTag(HmacKeyBlock(secret), body))
\* hmac.compare_digest(a, b) on two str: equality (a non-ASCII argument makes
\* it raise TypeError, which verify_webhook_signature answers with False, as
\* the comparison with a hexadecimal digest does).
compare_digest(a, b) == a = b
\* OneTrustClient.verify_webhook_signature(signature, body, secret)
verify_webhook_signature(signature, body, secret) ==
    compare_digest(signature,
                   HmacHexDigest(Utf8Encode(OrElse(secret, EnvGet("WEBHOOK_SECRET", <<>>))),
                                 Utf8Encode(body)))

\* The events OneTrust sends, by their type; the raw body of a request is
\* the digit that numbers its type here, the digit after the last being an
\* event of a type the route does not know and the next a body that is not
\* JSON.
EventTypes == <<"consent.granted", "consent.updated", "consent.revoked",
                "dsar.submitted", "preference.updated">>
RawBody(k) == <<48 + k>>
get_json(raw_body) ==
    IF raw_body[1] - 48 \in 1..Len(EventTypes)
    THEN Ok([type |-> EventTypes[raw_body[1] - 48]])
    ELSE IF raw_body[1] - 48 = Len(EventTypes) + 1 THEN Ok([type |-> "other"])
    ELSE Raise("BadRequest")
HandlerOf(event_type) ==
    CASE event_type = "consent.granted" -> "handle_consent_granted"
      [] event_type = "consent.updated" -> "handle_consent_updated"
      [] event_type = "consent.revoked" -> "handle_consent_revoked"
      [] event_type = "dsar.submitted" -> "handle_dsar_submitted"
      [] event_type = "preference.updated" -> "handle_preference_updated"
      [] OTHER -> "none"

\* webhook(), the handler of POST /api/onetrust/webhook: the reply and the
\* event handler that ran.
WebhookReply(status, error, handler, raw_body) ==
    [NoResponse EXCEPT !.endpoint = "webhook", !.status = status, !.error = error,
                       !.success = status = 200, !.arg = raw_body, !.handler = handler]
Dispatched(event, raw_body) ==
    IF ~event.ok THEN WebhookReply(500, "Failed to process webhook", "none", raw_body)
    ELSE WebhookReply(200, "", HandlerOf(event.val.type), raw_body)
Verified(signature, raw_body) ==
    IF Truthy(signature) THEN verify_webhook_signature(signature, raw_body, None) ELSE TRUE
webhook(headers, raw_body) ==
    IF ~Verified(OrElse(headers.x_onetrust_signature, headers.x_webhook_signature), raw_body)
    THEN WebhookReply(401, "Invalid webhook signature", "none", raw_body)
    ELSE Dispatched(get_json(raw_body), raw_body)

\* The requests a sender may post: every body, with no signature, an empty
\* one, the one the configured secret gives, or the one another secret gives.
WebhookSecret == <<115>>
OtherSecret == <<120>>
SentSignatures(raw_body) ==
    {None, <<>>, Utf8Decode(HmacHexDigest(Utf8Encode(EnvGet("WEBHOOK_SECRET", <<>>)), raw_body)),
     Utf8Decode(HmacHexDigest(OtherSecret, raw_body))}
RequestsWith(raw_body) ==
    {[over_limit |-> FALSE,
      headers |-> [x_onetrust_signature |-> a, x_webhook_signature |-> b],
      body |-> raw_body] :
        a \in SentSignatures(raw_body),
        b \in {None, Utf8Decode(HmacHexDigest(OtherSecret, raw_body))}}
WebhookRequests == UNION {RequestsWith(RawBody(k)) : k \in 1..Len(EventTypes) + 2}

\* What an attacker or a faulty store may make of a token: one bit of one
\* base64 digit flipped (its lowest or its highest; a padding character
\* becomes "A"), a character appended, or the last character cut off.
FlipBit(v, m) == IF (v \div m) % 2 = 1 THEN v - m ELSE v + m
FlipChar(c, m) == IF IsB64Digit(c) THEN B64Alphabet[FlipBit(B64Value(c), m) + 1] ELSE 65
Tampered(t) ==
    {[t EXCEPT ![p] = FlipChar(t[p], m)] : p \in 1..Len(t), m \in {1, 32}}
        \cup {Append(t, 10), Append(t, 65), SubSeq(t, 1, Len(t) - 1)}

\* --------------------------------------------------------------- actions
\* The history keeps the latest entry: encrypt keeps no state in the
\* cipher, so every token is the latest one when it is issued.
Latest(h) == IF Len(h) > 1 THEN Tail(h) ELSE h
Range(f) == {f[x] : x \in DOMAIN f}
Remember(h, i, s, r, ts, iv) ==
    IF r.ok /\ r.val # <<>>
    THEN Latest(Append(h, [inst |-> i, plaintext |-> s, token |-> r.val, ts |-> ts,
                           iv |-> iv]))
    ELSE h

\* x = DataEncryption(arg)
Constructed(i, arg, r) ==
    /\ ciphers' = IF r.ok THEN ciphers @@ (i :> r.self) ELSE ciphers
    /\ last' = [op |-> "init", inst |-> i, arg |-> arg, ref |-> <<>>,
                res |-> Call([ok |-> r.ok, val |-> <<>>, err |-> r.err], 0)]
Construct(i, arg) ==
    /\ i \notin DOMAIN ciphers
    /\ Constructed(i, arg, DataEncryption_init(arg))
    /\ UNCHANGED <<environ, now, issued, appVars, policy, managerVars, RetentionPolicy, gdprVars>>

\* An encrypt that replaces the instance's key and cipher by ones made from
\* the nonce of the call.
Encrypted_rekeying(i, s, iv, r) ==
    /\ last' = [op |-> "encrypt", inst |-> i, arg |-> s, ref |-> <<>>, res |-> r]
    /\ issued' = Remember(issued, i, s, r, now, iv)
    /\ ciphers' = [ciphers EXCEPT ![i] = InitKey(iv).self]
\* ciphers[i].encrypt(s): self.cipher is read, nothing of self is assigned.
Encrypted(i, s, iv, r) ==
    /\ last' = [op |-> "encrypt", inst |-> i, arg |-> s, ref |-> <<>>, res |-> r]
    /\ issued' = Remember(issued, i, s, r, now, iv)
    /\ ciphers' = ciphers
Encrypt(i, s, iv) ==
    /\ i \in DOMAIN ciphers
    /\ Encrypted(i, s, iv, encrypt(ciphers[i], s, iv, now))
    /\ UNCHANGED <<environ, now, appVars, policy, managerVars, RetentionPolicy, gdprVars>>

\* ciphers[i].decrypt(t), t the empty string or a token some instance issued
Decrypt(i, t) ==
    /\ i \in DOMAIN ciphers
    /\ last' = [op |-> "decrypt", inst |-> i, arg |-> t, ref |-> t, res |-> decrypt(ciphers[i], t)]
    /\ UNCHANGED <<environ, now, ciphers, issued, appVars, policy, managerVars, RetentionPolicy, gdprVars>>

\* ciphers[i].decrypt(x), x a token t some instance issued with one
\* character changed, appended or cut off
TamperedDecrypt(i, t, x) ==
    /\ i \in DOMAIN ciphers
    /\ last' = [op |-> "decrypt", inst |-> i, arg |-> x, ref |-> t, res |-> decrypt(ciphers[i], x)]
    /\ UNCHANGED <<environ, now, ciphers, issued, appVars, policy, managerVars, RetentionPolicy, gdprVars>>

\* DataEncryption.generate_key()
GenerateKey(r) ==
    /\ last' = [op |-> "generate_key", inst |-> 0, arg |-> <<>>, ref |-> <<>>,
                res |-> Call(Ok(generate_key(r)), 0)]
    /\ UNCHANGED <<environ, now, ciphers, issued, appVars, policy, managerVars, RetentionPolicy, gdprVars>>

\* Time passes.
Tick ==
    /\ now < MaxClock
    /\ now' = now + 1
    /\ UNCHANGED <<environ, cipherVars, appVars, policy, managerVars, RetentionPolicy, gdprVars>>

\* RetentionPolicy.get_retention_period(category)
GetRetentionPeriod(category) ==
    /\ policy' = [op |-> "get_retention_period", created_at |-> 0, category |-> category,
                  utcnow |-> UtcNow, ok |-> TRUE, err |-> "none",
                  days |-> get_retention_period(category), expired |-> FALSE]
    /\ UNCHANGED <<environ, now, cipherVars, appVars, managerVars, RetentionPolicy, gdprVars>>

\* RetentionPolicy.is_expired(created_at, category)
Expired(created_at, category, r) ==
    policy' = [op |-> "is_expired", created_at |-> created_at, category |-> category,
               utcnow |-> UtcNow, ok |-> r.ok, err |-> r.err, days |-> 0,
               expired |-> r.expired]
IsExpired(created_at, category) ==
    /\ Expired(created_at, category, is_expired(created_at, category, UtcNow))
    /\ UNCHANGED <<environ, now, cipherVars, appVars, managerVars, RetentionPolicy, gdprVars>>

\* app.py is imported: the module-level initialisation runs and the server
\* starts.
Startup ==
    /\ app.phase = "import"
    /\ app' = InitEncryption(DataEncryption_init(None))
    /\ UNCHANGED <<environ, now, cipherVars, request, response, policy, managerVars,
                   RetentionPolicy, gdprVars>>

\* GET /api/health
HealthCheck(over_limit) ==
    /\ app.phase = "serving"
    /\ request' = [NoRequest EXCEPT !.over_limit = over_limit]
    /\ response' = IF over_limit THEN Aborted("health", 429, "ratelimit exceeded", <<>>)
                   ELSE health_check(app.encryption)
    /\ UNCHANGED <<environ, now, cipherVars, app, policy, managerVars, RetentionPolicy, gdprVars>>

\* POST /api/encrypt
Answered(s, iv, r) ==
    /\ response' = r
    /\ issued' = Remember(issued, 0, s, [ok |-> r.success, val |-> r.value], now, iv)
EncryptData(req, iv) ==
    /\ app.phase = "serving"
    /\ request' = req
    /\ Answered(req.body, iv, Guarded("encrypt", req.over_limit, require_api_key(req.headers),
                                      req.body, encrypt_data(app.encryption, req.body, iv, now)))
    /\ UNCHANGED <<environ, now, ciphers, last, app, policy, managerVars, RetentionPolicy, gdprVars>>

\* POST /api/decrypt
DecryptData(req) ==
    /\ app.phase = "serving"
    /\ request' = req
    /\ response' = Guarded("decrypt", req.over_limit, require_api_key(req.headers), req.body,
                           decrypt_data(app.encryption, req.body))
    /\ UNCHANGED <<environ, now, cipherVars, app, policy, managerVars, RetentionPolicy, gdprVars>>

\* POST /api/onetrust/webhook
Webhook(req) ==
    /\ request' = req
    /\ response' = webhook(req.headers, req.body)
    /\ UNCHANGED <<environ, now, cipherVars, app, policy, managerVars, RetentionPolicy, gdprVars>>

\* encrypt_field(value)
EncryptedField(s, iv, r) ==
    /\ last' = [op |-> "encrypt_field", inst |-> 0, arg |-> s, ref |-> <<>>, res |-> r]
    /\ issued' = Remember(issued, 0, s, r, now, iv)
EncryptField(s, iv) ==
    /\ EncryptedField(s, iv, encrypt_field(s, iv, now))
    /\ UNCHANGED <<environ, now, ciphers, appVars, policy, managerVars, RetentionPolicy, gdprVars>>

\* decrypt_field(value)
DecryptField(t) ==
    /\ last' = [op |-> "decrypt_field", inst |-> 0, arg |-> t, ref |-> t,
                res |-> decrypt_field(t)]
    /\ UNCHANGED <<environ, now, ciphers, issued, appVars, policy, managerVars, RetentionPolicy, gdprVars>>

\* manager.delete_expired_data(category[, dry_run])
Deleted(category, dry_run, expired, r) ==
    /\ deletion_log' = r.deletion_log
    /\ cleanup' = [op |-> "delete_expired_data", category |-> category, dry_run |-> dry_run,
                   scan |-> expired, ok |-> r.ok, err |-> r.err, count |-> r.count,
                   passes |-> <<Pass(category, DryRunArg(dry_run), r)>>,
                   before |-> deletion_log]
DeleteExpiredData(category, dry_run, expired) ==
    /\ Len(deletion_log) < MaxLog
    /\ Deleted(category, dry_run, expired,
               delete_expired_data(deletion_log, category, dry_run, expired, UtcNow))
    /\ UNCHANGED <<environ, now, cipherVars, appVars, policy, RetentionPolicy, gdprVars>>

\* manager.schedule_retention_cleanup()
Cleaned(scans, r) ==
    /\ deletion_log' = r.deletion_log
    /\ cleanup' = [op |-> "schedule_retention_cleanup", category |-> "none",
                   dry_run |-> <<FALSE>>, scan |-> Ok(<<>>), ok |-> TRUE, err |-> "none",
                   count |-> 0, passes |-> r.passes, before |-> deletion_log]
ScheduleRetentionCleanup(scans) ==
    /\ Len(deletion_log) < MaxLog
    /\ Cleaned(scans, schedule_retention_cleanup(deletion_log, scans, UtcNow))
    /\ UNCHANGED <<environ, now, cipherVars, appVars, policy, RetentionPolicy, gdprVars>>

\* ---------------------------------------------------- utils/database.py
\* Database._pool is None
NoPool == 0
\* SQL NULL
Null == <<>>
\* What a call on Database or GDPRCompliance returns or raises.
Returned(v) == [ok |-> TRUE, returned |-> v, err |-> "none"]
Raised(e) == [ok |-> FALSE, returned |-> FALSE, err |-> e]
\* The calls on the pool, the connection and the cursor, in order.
Called(db, name) == [db EXCEPT !.calls = Append(@, name)]
\* SimpleConnectionPool(minconn=1, maxconn=10, ...): one more pool exists;
\* both branches of initialize_pool construct one.
initialize_pool(db) ==
    IF db._pool = NoPool
    THEN [db EXCEPT !.pools = @ + 1, !._pool = db.pools + 1]
    ELSE db
\* No transaction: the tables as a connection sees them outside a with block.
NoTables == [users |-> <<>>, player_sessions |-> <<>>, audit_logs |-> <<>>,
             data_deletions |-> <<>>]
\* A putconn that keeps the connection out of the pool.
putconn_keeping(db) == Called(db, "putconn")
\* A rollback that keeps what the transaction wrote.
rollback_keeping(db) == [Called(db, "rollback") EXCEPT !.tables = db.work]
\* cls._pool.getconn(), putconn(conn); a connection starts its transaction
\* on what is committed, and has none once it is back in the pool.
getconn(db) == [Called(db, "getconn") EXCEPT !.checked_out = @ + 1, !.work = db.tables]
putconn(db) == [Called(db, "putconn") EXCEPT !.checked_out = @ - 1, !.work = NoTables]
\* conn.cursor(), cursor.close()
cursor(db) == [Called(db, "cursor") EXCEPT !.cursors = @ + 1]
close(db) == [Called(db, "close") EXCEPT !.cursors = @ - 1]
\* conn.commit(), conn.rollback()
commit(db) == [Called(db, "commit") EXCEPT !.tables = db.work]
rollback(db) == [Called(db, "rollback") EXCEPT !.work = db.tables]

\* The two context managers are generators: what runs before the yield
\* enters the with-body, what runs after it leaves the body, with r the
\* connection and the outcome the body ended with.
\* get_connection() up to the yield: the pool is made if there is none and
\* a connection is taken.
get_connection(db) == getconn(IF db._pool = NoPool THEN initialize_pool(db) ELSE db)
\* get_connection() after the yield: the finally clause
get_connection_finally(r) == [r EXCEPT !.db = putconn(r.db)]
\* get_cursor() up to the yield
get_cursor(db) == cursor(get_connection(db))
\* get_cursor() after the yield: commit, or rollback and raise again; the
\* cursor is closed either way, then the connection's with block is left.
get_cursor_finally(r) ==
    get_connection_finally(IF r.outcome.ok THEN [r EXCEPT !.db = close(commit(r.db))]
                           ELSE [r EXCEPT !.db = close(rollback(r.db))])

\* cursor.execute(query, params): the statement is the one that fails (the
\* server refuses it and raises), or it leaves the transaction's tables as
\* written.
\* A body that has raised executes nothing more.
Statement(sql, fields, values, where) ==
    [sql |-> sql, fields |-> fields, values |-> values, where |-> where]
execute(r, stmt, failing, written) ==
    IF ~r.outcome.ok THEN r
    ELSE LET db == [r.db EXCEPT !.statements = Append(@, stmt)]
         IN  IF Len(db.statements) = failing
             THEN [db |-> db, outcome |-> Raised("DatabaseError")]
             ELSE [db |-> [db EXCEPT !.work = written], outcome |-> r.outcome]
\* The with-body as it starts.
Entered(conn) == [db |-> conn, outcome |-> Returned(FALSE)]

\* Database.execute_query(query, params), execute_one(query, params): one
\* statement inside get_cursor.  The rows fetched are not kept.
execute_query(db, stmt, failing) ==
    LET conn == get_cursor(db)
    IN  get_cursor_finally(execute(Entered(conn), stmt, failing, conn.work))

\* ------------------------------------------------------ models/gdpr.py
\* str literals of the module, as code points.
TextANONYMIZED == <<65, 78, 79, 78, 89, 77, 73, 90, 69, 68>>
TextAnonymizedPrefix == <<97, 110, 111, 110, 121, 109, 105, 122, 101, 100, 95>>
TextDeletedLocal == <<64, 100, 101, 108, 101, 116, 101, 100, 46, 108, 111, 99, 97, 108>>
TextDeletedUser == <<68, 101, 108, 101, 116, 101, 100, 32, 85, 115, 101, 114, 32>>
TextFieldName == [username |-> <<117, 115, 101, 114, 110, 97, 109, 101>>,
                  email |-> <<101, 109, 97, 105, 108>>]
\* hashlib.sha256(data).hexdigest(): the digest stand-in of this model, in hex
sha256_hexdigest(data) == HexDigest(HmacTag(HmacKeyBlock(<<>>), data))
\* s[:n]
Prefix(s, n) == SubSeq(s, 1, Min(n, Len(s)))
anonymized_email(user_email) ==
    TextAnonymizedPrefix \o Prefix(sha256_hexdigest(Utf8Encode(user_email)), 16)
        \o TextDeletedLocal
anonymized_name(user_id) ==
    TextDeletedUser \o Prefix(sha256_hexdigest(Utf8Encode(user_id)), 8)

AuditRow(user_id, action, request_data) ==
    [user_id |-> user_id, action |-> action, resource_type |-> "user",
     resource_id |-> user_id, request_data |-> request_data, ip_address |-> Null,
     user_agent |-> Null, response_status |-> 200]

\* The five writes of anonymize_user_data.
AnonymizeUsers(t, user_id, user_email) ==
    [t EXCEPT !.users =
        [id \in DOMAIN t.users |->
            IF id = user_id
            THEN [t.users[id] EXCEPT !.username = anonymized_name(user_id),
                                     !.email = anonymized_email(user_email),
                                     !.password_hash = TextANONYMIZED,
                                     !.is_active = FALSE, !.is_verified = FALSE]
            ELSE t.users[id]]]
AnonymizeSessions(t, user_id, user_email) ==
    [t EXCEPT !.player_sessions =
        [i \in 1..Len(t.player_sessions) |->
            IF t.player_sessions[i].email = user_email
            THEN [t.player_sessions[i] EXCEPT !.name = anonymized_name(user_id),
                                              !.email = anonymized_email(user_email),
                                              !.ip_address = Null,
                                              !.user_agent = TextANONYMIZED]
            ELSE t.player_sessions[i]]]
ScrubAuditLogs(t, user_id) ==
    [t EXCEPT !.audit_logs =
        [i \in 1..Len(t.audit_logs) |->
            IF t.audit_logs[i].user_id = user_id
            THEN [t.audit_logs[i] EXCEPT !.request_data = Null, !.ip_address = Null,
                                         !.user_agent = TextANONYMIZED]
            ELSE t.audit_logs[i]]]
InsertDeletion(t, user_id, user_email, utcnow) ==
    [t EXCEPT !.data_deletions =
        Append(@, [user_id |-> user_id, email |-> user_email, status |-> "completed",
                   completed_at |-> utcnow,
                   deletion_data |-> [anonymization_method |-> "gdpr_right_to_be_forgotten",
                                      anonymized_at |-> utcnow]])]
InsertAuditLog(t, row) == [t EXCEPT !.audit_logs = Append(@, row)]

\* The body of anonymize_user_data's with statement.
AnonymizeWrites(r, user_id, user_email, failing, utcnow) ==
    LET s2 == execute(r, Statement("update users", <<"username", "email", "password_hash">>,
                                   <<anonymized_name(user_id), anonymized_email(user_email),
                                     TextANONYMIZED>>, user_id),
                      failing, AnonymizeUsers(r.db.work, user_id, user_email))
        s3 == execute(s2, Statement("update player_sessions", <<"name", "email">>,
                                    <<anonymized_name(user_id), anonymized_email(user_email)>>,
                                    user_email),
                      failing, AnonymizeSessions(s2.db.work, user_id, user_email))
        s4 == execute(s3, Statement("update audit_logs", <<>>, <<>>, user_id),
                      failing, ScrubAuditLogs(s3.db.work, user_id))
        s5 == execute(s4, Statement("insert data_deletions", <<"user_id", "email">>,
                                    <<user_id, user_email>>, Null),
                      failing, InsertDeletion(s4.db.work, user_id, user_email, utcnow))
    IN  execute(s5, Statement("insert audit_logs", <<"user_id", "action">>,
                              <<user_id>>, Null),
                failing,
                InsertAuditLog(s5.db.work, AuditRow(user_id, "gdpr_anonymization", Null)))
AnonymizeBody(conn, user_id, failing, utcnow) ==
    LET s1 == execute(Entered(conn), Statement("select users", <<"email">>, <<>>, user_id),
                      failing, conn.work)
    IN  IF ~s1.outcome.ok THEN s1
        ELSE IF user_id \notin DOMAIN s1.db.work.users
        THEN [s1 EXCEPT !.outcome = Returned(FALSE)]
        ELSE LET s6 == AnonymizeWrites(s1, user_id, s1.db.work.users[user_id].email,
                                       failing, utcnow)
             IN  IF s6.outcome.ok THEN [s6 EXCEPT !.outcome = Returned(TRUE)] ELSE s6
\* GDPRCompliance.anonymize_user_data(user_id): the except clause prints and
\* raises again.
anonymize_user_data(db, user_id, failing, utcnow) ==
    get_cursor_finally(AnonymizeBody(get_cursor(db), user_id, failing, utcnow))

\* rectify_user_data: corrections is a dict, here its items in order.
allowed_fields == {"username", "email"}
KeyText == [username |-> <<117, 115, 101, 114, 110, 97, 109, 101>>,
            email |-> <<101, 109, 97, 105, 108>>,
            password_hash |-> <<112, 97, 115, 115, 119, 111, 114, 100, 95, 104, 97, 115, 104>>,
            is_admin |-> <<105, 115, 95, 97, 100, 109, 105, 110>>]
\* A comprehension that keeps every key.
FieldsToUpdateUnfiltered(corrections) == corrections
\* {k: v for k, v in corrections.items() if k in allowed_fields}
FieldsToUpdate(corrections) == SelectSeq(corrections, LAMBDA kv : kv.key \in allowed_fields)
Keys(items) == [i \in 1..Len(items) |-> items[i].key]
Values(items) == [i \in 1..Len(items) |-> items[i].value]
\* str(list(fields_to_update.keys()))
RECURSIVE ReprItems(_, _)
ReprItems(keys, i) ==
    IF i > Len(keys) THEN <<>>
    ELSE (IF i > 1 THEN <<44, 32>> ELSE <<>>) \o <<39>> \o KeyText[keys[i]] \o <<39>>
             \o ReprItems(keys, i + 1)
ReprList(keys) == <<91>> \o ReprItems(keys, 1) \o <<93>>
\* UPDATE users SET <set_clause> WHERE id = %s
RectifyUsers(t, user_id, items) ==
    [t EXCEPT !.users =
        [id \in DOMAIN t.users |->
            IF id = user_id
            THEN [f \in DOMAIN t.users[id] |->
                     IF \E i \in 1..Len(items) : items[i].key = f
                     THEN items[CHOOSE i \in 1..Len(items) : items[i].key = f].value
                     ELSE t.users[id][f]]
            ELSE t.users[id]]]
RectifyBody(conn, user_id, fields_to_update, failing) ==
    LET s1 == execute(Entered(conn),
                      Statement("update users", Keys(fields_to_update),
                                Append(Values(fields_to_update), user_id), user_id),
                      failing, RectifyUsers(conn.work, user_id, fields_to_update))
        s2 == execute(s1, Statement("insert audit_logs", <<"user_id", "action", "request_data">>,
                                    <<user_id, ReprList(Keys(fields_to_update))>>, Null),
                      failing,
                      InsertAuditLog(s1.db.work, AuditRow(user_id, "gdpr_rectification",
                                                          ReprList(Keys(fields_to_update)))))
    IN  IF s2.outcome.ok THEN [s2 EXCEPT !.outcome = Returned(TRUE)] ELSE s2
\* GDPRCompliance.rectify_user_data(user_id, corrections): the except clause
\* prints and returns False.
rectify_user_data(db, user_id, corrections, failing) ==
    LET fields_to_update == FieldsToUpdate(corrections)
    IN  IF fields_to_update = <<>> THEN [db |-> db, outcome |-> Returned(FALSE)]
        ELSE LET r == get_cursor_finally(RectifyBody(get_cursor(db), user_id,
                                                     fields_to_update, failing))
             IN  IF r.outcome.ok THEN r ELSE [r EXCEPT !.outcome = Returned(FALSE)]

\* The database as the model starts: one user with a session and an audit
\* log entry, and the session of somebody else.
UserOne == <<49>>
UserTwo == <<50>>
EmailOne == <<97, 64, 98>>
EmailTwo == <<99, 64, 98>>
StartTables ==
    [users |-> [id \in {UserOne} |->
                   [username |-> <<97>>, email |-> EmailOne, password_hash |-> <<104>>,
                    is_active |-> TRUE, is_verified |-> TRUE]],
     player_sessions |-> <<[name |-> <<97>>, email |-> EmailOne, ip_address |-> <<49>>,
                            user_agent |-> <<85>>],
                           [name |-> <<99>>, email |-> EmailTwo, ip_address |-> <<50>>,
                            user_agent |-> <<85>>]>>,
     audit_logs |-> <<[AuditRow(UserOne, "login", <<123, 125>>) EXCEPT
                          !.ip_address = <<49>>, !.user_agent = <<85>>]>>,
     data_deletions |-> <<>>]
\* The class after import: the pool was made, or making it raised and the
\* module went on without one.
ImportedDatabase(made) ==
    [_pool |-> IF made THEN 1 ELSE NoPool, pools |-> IF made THEN 1 ELSE 0,
     checked_out |-> 0, cursors |-> 0, tables |-> StartTables, work |-> NoTables,
     calls |-> <<>>, statements |-> <<>>]
NoGdprCall ==
    [op |-> "none", user_id |-> Null, corrections |-> <<>>, failing |-> 0,
     outcome |-> Returned(FALSE), before |-> NoTables]
Threads == {1, 2}
\* A thread: where it is, the call it made, the pool it constructed, the pool
\* its connection came from and the pool it gave the connection back to.
NoThread == [pc |-> "idle", op |-> "none", made |-> NoPool, conn |-> NoPool, put |-> NoPool]

InitGdpr ==
    /\ InitConsent
    /\ Database = ImportedDatabase(TRUE)
    /\ gdpr = NoGdprCall
    /\ threads = [t \in Threads |-> NoThread]

\* Calls on the ConsentManager object: none of its methods assigns to self;
\* called keeps the names of the consent-changing methods called so far.
ConsentChanging == {"request_consent", "record_consent", "revoke_consent"}
ConsentCalled(call) ==
    /\ consentManager' = [consentManager EXCEPT
                              !.call = call,
                              !.called = @ \cup ({call.op} \cap ConsentChanging)]
    /\ UNCHANGED <<coreVars, userConsent, databaseVars>>
RequestConsent(consent_type) ==
    ConsentCalled([NoConsentCall EXCEPT
        !.op = "request_consent", !.consent_type = consent_type,
        !.record = request_consent(consentManager.self, consent_type, "ads", "consent",
                                   UtcNow)])
RecordConsent(consent_type, granted, metadata) ==
    ConsentCalled([NoConsentCall EXCEPT
        !.op = "record_consent", !.consent_type = consent_type, !.granted = granted,
        !.record = record_consent(consentManager.self, consent_type, granted, metadata,
                                  UtcNow)])
ManagerRevokeConsent(consent_type) ==
    ConsentCalled([NoConsentCall EXCEPT
        !.op = "revoke_consent", !.consent_type = consent_type,
        !.returned = manager_revoke_consent(consentManager.self, consent_type)])
GetConsentStatus(consent_type) ==
    ConsentCalled([NoConsentCall EXCEPT
        !.op = "get_consent_status", !.consent_type = consent_type,
        !.status = get_consent_status(consentManager.self, consent_type)])
GetAllConsents ==
    ConsentCalled([NoConsentCall EXCEPT
        !.op = "get_all_consents", !.list = get_all_consents(consentManager.self)])
ConsentAuditLog ==
    ConsentCalled([NoConsentCall EXCEPT
        !.op = "consent_audit_log", !.list = consent_audit_log(consentManager.self)])

\* Calls on the UserConsent object; recent keeps, for every type, the last
\* two of its grant and revoke calls, oldest first.
Noted(calls, op) == IF Len(calls) < 2 THEN Append(calls, op) ELSE <<calls[2], op>>
MostRecent(calls) == IF calls = <<>> THEN "none" ELSE calls[Len(calls)]
UserConsentCalled(self, op, consent_type, returned, recent) ==
    /\ userConsent' = [self |-> self,
                       call |-> [op |-> op, consent_type |-> consent_type,
                                 returned |-> returned],
                       recent |-> recent]
    /\ UNCHANGED <<coreVars, consentManager, databaseVars>>
GrantConsent(consent_type) ==
    UserConsentCalled(grant_consent(userConsent.self, consent_type, "ads", UtcNow),
                      "grant_consent", consent_type, FALSE,
                      [userConsent.recent EXCEPT ![consent_type] = Noted(@, "grant")])
RevokeConsent(consent_type) ==
    UserConsentCalled(revoke_consent(userConsent.self, consent_type, UtcNow),
                      "revoke_consent", consent_type, FALSE,
                      [userConsent.recent EXCEPT ![consent_type] = Noted(@, "revoke")])
HasConsent(consent_type) ==
    UserConsentCalled(userConsent.self, "has_consent", consent_type,
                      has_consent(userConsent.self, consent_type), userConsent.recent)

\* Calls on GDPRCompliance and Database by one thread at a time; each starts
\* a new record of the calls made and the statements sent.
GdprCalled(op, user_id, corrections, failing, r) ==
    /\ Len(Database.tables.audit_logs) < MaxRows
    /\ Database' = r.db
    /\ gdpr' = [op |-> op, user_id |-> user_id, corrections |-> corrections,
                failing |-> failing, outcome |-> r.outcome, before |-> Database.tables]
    /\ UNCHANGED <<coreVars, consentVars, threads>>
Fresh(db) == [db EXCEPT !.calls = <<>>, !.statements = <<>>]
AnonymizeUserData(user_id, failing) ==
    GdprCalled("anonymize_user_data", user_id, <<>>, failing,
               anonymize_user_data(Fresh(Database), user_id, failing, UtcNow))
RectifyUserData(user_id, corrections, failing) ==
    GdprCalled("rectify_user_data", user_id, corrections, failing,
               rectify_user_data(Fresh(Database), user_id, corrections, failing))
ExecuteQuery(user_id, failing) ==
    GdprCalled("execute_query", user_id, <<>>, failing,
               execute_query(Fresh(Database),
                             Statement("select users", <<"email">>, <<>>, user_id), failing))

\* Threads in initialize_pool and get_connection, one statement at a time:
\* nothing in database.py holds a lock.
ThreadStep(t, thread, db) ==
    /\ threads' = [threads EXCEPT ![t] = thread]
    /\ Database' = db
    /\ UNCHANGED <<coreVars, consentVars, gdpr>>
At(t, pc) == threads[t].pc = pc
Goto(t, pc) == [threads[t] EXCEPT !.pc = pc]
\* A thread calls Database.get_connection() or Database.initialize_pool().
EnterGetConnection(t) ==
    /\ At(t, "idle")
    /\ ThreadStep(t, [NoThread EXCEPT !.pc = "get_connection", !.op = "get_connection"],
                  Database)
EnterInitializePool(t) ==
    /\ At(t, "idle")
    /\ ThreadStep(t, [NoThread EXCEPT !.pc = "initialize_pool", !.op = "initialize_pool"],
                  Database)
\* get_connection, line 42: if cls._pool is None: cls.initialize_pool()
GetConnectionTest(t) ==
    /\ At(t, "get_connection")
    /\ ThreadStep(t, Goto(t, IF Database._pool = NoPool THEN "initialize_pool" ELSE "getconn"),
                  Database)
\* initialize_pool, line 16: if cls._pool is None
InitializePoolTest(t) ==
    /\ At(t, "initialize_pool")
    /\ ThreadStep(t, Goto(t, IF Database._pool = NoPool THEN "construct"
                             ELSE IF threads[t].op = "get_connection" THEN "getconn"
                             ELSE "done"),
                  Database)
\* lines 17-35, the right-hand side: SimpleConnectionPool(...) connects
ConstructPool(t) ==
    /\ At(t, "construct")
    /\ ThreadStep(t, [Goto(t, "assign") EXCEPT !.made = Database.pools + 1],
                  [Database EXCEPT !.pools = @ + 1])
\* lines 20 and 27, the assignment: cls._pool = ...
AssignPool(t) ==
    /\ At(t, "assign")
    /\ ThreadStep(t, Goto(t, IF threads[t].op = "get_connection" THEN "getconn" ELSE "done"),
                  [Database EXCEPT !._pool = threads[t].made])
\* line 45: conn = cls._pool.getconn(); the with-body follows
GetConn(t) ==
    /\ At(t, "getconn")
    /\ ThreadStep(t, [Goto(t, "body") EXCEPT !.conn = Database._pool],
                  [Database EXCEPT !.checked_out = @ + 1])
\* line 49: cls._pool.putconn(conn)
PutConn(t) ==
    /\ At(t, "body")
    /\ ThreadStep(t, [Goto(t, "done") EXCEPT !.put = Database._pool],
                  [Database EXCEPT !.checked_out = @ - 1])

EmptyFn == [i \in {} |-> 0]

Init ==
    /\ environ \in [ENCRYPTION_KEY : EnvKeys, ADMIN_TOKEN : {None}, API_KEY : {None}]
    /\ now = 0
    /\ ciphers = EmptyFn
    /\ issued = <<>>
    /\ last = NoCall
    /\ app = NoApp
    /\ request = NoRequest
    /\ response = NoResponse
    /\ policy = NoPolicyCall
    /\ deletion_log = <<>>
    /\ cleanup = NoCleanup
    /\ RetentionPolicy = [RETENTION_PERIODS |-> RETENTION_PERIODS]
    /\ InitGdpr

Next ==
    \/ \E i \in Insts, arg \in KeyArgs : Construct(i, arg)
    \/ \E i \in Insts, s \in Plaintexts, iv \in URandomIv : Encrypt(i, s, iv)
    \/ \E i \in Insts, t \in {<<>>} \cup {r.token : r \in Range(issued)} : Decrypt(i, t)
    \/ \E r \in URandom32 : GenerateKey(r)
    \/ Tick

Spec == Init /\ [][Next]_vars

\* One cipher, its tokens, and modified tokens handed back to it.
NextTamper ==
    \/ \E arg \in KeyArgs : Construct(1, arg)
    \/ \E s \in Plaintexts, iv \in URandomIv : Encrypt(1, s, iv)
    \/ \E r \in Range(issued) : \E x \in Tampered(r.token) :
          TamperedDecrypt(r.inst, r.token, x)

SpecTamper == Init /\ [][NextTamper]_vars

\* The retention policy on its own.
NextRetention ==
    \/ \E c \in Categories : GetRetentionPeriod(c)
    \/ \E d \in CreatedAts, c \in Categories : IsExpired(d, c)
    \/ Tick

SpecRetention == Init /\ [][NextRetention]_vars

\* The retention manager: single deletions, cleanup runs, and the clock.
NextCleanup ==
    \/ \E c \in DataCategory, d \in {Omitted, <<TRUE>>, <<FALSE>>}, e \in ScanOutcomes :
          DeleteExpiredData(c, d, e)
    \/ \E scans \in ScanRuns : ScheduleRetentionCleanup(scans)
    \/ Tick

InitCleanup ==
    /\ environ = [ENCRYPTION_KEY |-> None, ADMIN_TOKEN |-> None, API_KEY |-> None]
    /\ now = 0
    /\ ciphers = EmptyFn
    /\ issued = <<>>
    /\ last = NoCall
    /\ app = NoApp
    /\ request = NoRequest
    /\ response = NoResponse
    /\ policy = NoPolicyCall
    /\ deletion_log = <<>>
    /\ cleanup = NoCleanup
    /\ RetentionPolicy = [RETENTION_PERIODS |-> RETENTION_PERIODS]
    /\ InitGdpr

SpecCleanup == InitCleanup /\ [][NextCleanup]_vars

\* Two instances made from one key and the retention policy, called in any
\* order by the threads of one process.
NextShared ==
    \/ \E i \in Insts : Construct(i, KeyKNul)
    \/ \E i \in Insts, iv \in URandomIv : Encrypt(i, <<233>>, iv)
    \/ \E i \in Insts, t \in {<<>>} \cup {r.token : r \in Range(issued)} : Decrypt(i, t)
    \/ \E c \in {"activity_logs", "archived_data"} : GetRetentionPeriod(c)
    \/ \E d \in {UtcNow - 90, MaxOrdinal}, c \in {"activity_logs", "archived_data"} :
          IsExpired(d, c)
    \/ Tick

SpecShared == Init /\ [][NextShared]_vars

\* An instance made from an explicit key and one made without, under every
\* value of ENCRYPTION_KEY.
NextPrecedence ==
    \/ \E arg \in {KeyK, KeyG} : Construct(1, arg)
    \/ \E arg \in {None, <<>>} : Construct(2, arg)
    \/ \E i \in Insts, s \in Plaintexts, iv \in URandomIv : Encrypt(i, s, iv)
    \/ \E i \in Insts, t \in {<<>>} \cup {r.token : r \in Range(issued)} : Decrypt(i, t)
    \/ Tick

SpecPrecedence == Init /\ [][NextPrecedence]_vars

\* The same records examined again as time passes: creation dates around
\* the expiry boundary of every category on the first day, and the extremes.
CreatedOnce ==
    {Today - get_retention_period(c) + d : c \in Categories, d \in {-1, 0, 1}}
        \cup {MinOrdinal, MaxOrdinal}
NextExpiry ==
    \/ \E d \in CreatedOnce, c \in Categories : IsExpired(d, c)
    \/ Tick

SpecExpiry == Init /\ [][NextExpiry]_vars

\* The consent manager of one user.
ConsentTypesAsked == {"analytics", "marketing"}
NextConsent ==
    \/ \E t \in ConsentTypesAsked : RequestConsent(t)
    \/ \E t \in ConsentTypesAsked, g \in BOOLEAN, m \in Metadatas : RecordConsent(t, g, m)
    \/ \E t \in ConsentTypesAsked : ManagerRevokeConsent(t)
    \/ \E t \in ConsentTypesAsked : GetConsentStatus(t)
    \/ GetAllConsents
    \/ ConsentAuditLog
    \/ Tick

SpecConsent == Init /\ [][NextConsent]_vars

\* The consent object of one user: two types are granted and revoked, a
\* third is only ever revoked, and the fourth only asked about.
NextUserConsent ==
    \/ \E t \in {"essential", "analytics"} : GrantConsent(t)
    \/ \E t \in {"essential", "analytics", "marketing"} : RevokeConsent(t)
    \/ \E t \in ConsentType : HasConsent(t)
    \/ Tick

SpecUserConsent == Init /\ [][NextUserConsent]_vars

\* The GDPR operations on the database, one at a time.
Corrections ==
    {<<>>,
     <<[key |-> "is_admin", value |-> <<49>>]>>,
     <<[key |-> "username", value |-> <<98>>]>>,
     <<[key |-> "email", value |-> <<100, 64, 98>>], [key |-> "username", value |-> <<98>>]>>,
     <<[key |-> "password_hash", value |-> <<120>>], [key |-> "username", value |-> <<98>>],
       [key |-> "is_admin", value |-> <<49>>]>>}
NextDatabase ==
    \/ \E u \in {UserOne, UserTwo}, failing \in 0..6 : AnonymizeUserData(u, failing)
    \/ \E u \in {UserOne, UserTwo}, c \in Corrections, failing \in 0..2 :
           RectifyUserData(u, c, failing)
    \/ \E u \in {UserOne, UserTwo}, failing \in 0..1 : ExecuteQuery(u, failing)
    \/ Tick

InitDatabase ==
    /\ environ = [ENCRYPTION_KEY |-> None, ADMIN_TOKEN |-> None, API_KEY |-> None]
    /\ now = 0
    /\ ciphers = EmptyFn
    /\ issued = <<>>
    /\ last = NoCall
    /\ app = NoApp
    /\ request = NoRequest
    /\ response = NoResponse
    /\ policy = NoPolicyCall
    /\ deletion_log = <<>>
    /\ cleanup = NoCleanup
    /\ RetentionPolicy = [RETENTION_PERIODS |-> RETENTION_PERIODS]
    /\ InitConsent
    /\ \E made \in BOOLEAN : Database = ImportedDatabase(made)
    /\ gdpr = NoGdprCall
    /\ threads = [t \in Threads |-> NoThread]

SpecDatabase == InitDatabase /\ [][NextDatabase]_vars

\* The worker threads of a process whose import could not make the pool.
NextPool ==
    \/ \E t \in Threads : EnterGetConnection(t)
    \/ \E t \in Threads : EnterInitializePool(t)
    \/ \E t \in Threads : GetConnectionTest(t)
    \/ \E t \in Threads : InitializePoolTest(t)
    \/ \E t \in Threads : ConstructPool(t)
    \/ \E t \in Threads : AssignPool(t)
    \/ \E t \in Threads : GetConn(t)
    \/ \E t \in Threads : PutConn(t)

InitPool ==
    /\ environ = [ENCRYPTION_KEY |-> None, ADMIN_TOKEN |-> None, API_KEY |-> None]
    /\ now = 0
    /\ ciphers = EmptyFn
    /\ issued = <<>>
    /\ last = NoCall
    /\ app = NoApp
    /\ request = NoRequest
    /\ response = NoResponse
    /\ policy = NoPolicyCall
    /\ deletion_log = <<>>
    /\ cleanup = NoCleanup
    /\ RetentionPolicy = [RETENTION_PERIODS |-> RETENTION_PERIODS]
    /\ InitConsent
    /\ Database = ImportedDatabase(FALSE)
    /\ gdpr = NoGdprCall
    /\ threads = [t \in Threads |-> NoThread]

SpecPool == InitPool /\ [][NextPool]_vars

\* The service: import, then requests.  A token under another key and a
\* string that is no token are what a client may send besides the tokens
\* the service issued.
InitApp ==
    /\ environ \in [ENCRYPTION_KEY : EnvKeys, ADMIN_TOKEN : {None, TokA}, API_KEY : {None}]
    /\ now = 0
    /\ ciphers = EmptyFn
    /\ issued = <<>>
    /\ last = NoCall
    /\ app = NoApp
    /\ request = NoRequest
    /\ response = NoResponse
    /\ policy = NoPolicyCall
    /\ deletion_log = <<>>
    /\ cleanup = NoCleanup
    /\ RetentionPolicy = [RETENTION_PERIODS |-> RETENTION_PERIODS]
    /\ InitGdpr

\* The service with every configuration of the two admin keys, and requests
\* with every combination of the two headers.
InitAuth ==
    /\ environ \in [ENCRYPTION_KEY : {KeyK}, ADMIN_TOKEN : {None, <<>>, TokA},
                    API_KEY : {None, <<>>, TokA, TokB}]
    /\ now = 0
    /\ ciphers = EmptyFn
    /\ issued = <<>>
    /\ last = NoCall
    /\ app = NoApp
    /\ request = NoRequest
    /\ response = NoResponse
    /\ policy = NoPolicyCall
    /\ deletion_log = <<>>
    /\ cleanup = NoCleanup
    /\ RetentionPolicy = [RETENTION_PERIODS |-> RETENTION_PERIODS]
    /\ InitGdpr
AuthRequests ==
    {[over_limit |-> l, headers |-> [x_api_key |-> x, authorization |-> a], body |-> Missing] :
        l \in BOOLEAN, x \in {None, <<>>, TokA, TokB},
        a \in {None, TokB, Bearer, Bearer \o TokA}}
NextAuth ==
    \/ Startup
    \/ \E req \in AuthRequests : EncryptData(req, [i \in 1..AesBlock |-> 7])
    \/ \E req \in AuthRequests : DecryptData(req)

SpecAuth == InitAuth /\ [][NextAuth]_vars

\* The webhook route, with and without a configured secret.
InitWebhook ==
    /\ environ \in [ENCRYPTION_KEY : {None}, ADMIN_TOKEN : {None}, API_KEY : {None},
                    WEBHOOK_SECRET : {None, <<>>, WebhookSecret}]
    /\ now = 0
    /\ ciphers = EmptyFn
    /\ issued = <<>>
    /\ last = NoCall
    /\ app = NoApp
    /\ request = NoRequest
    /\ response = NoResponse
    /\ policy = NoPolicyCall
    /\ deletion_log = <<>>
    /\ cleanup = NoCleanup
    /\ RetentionPolicy = [RETENTION_PERIODS |-> RETENTION_PERIODS]
    /\ InitGdpr
NextWebhook == \E req \in WebhookRequests : Webhook(req)

SpecWebhook == InitWebhook /\ [][NextWebhook]_vars

ForeignToken ==
    encrypt(DataEncryption_init(KeyG).self, <<65>>, [i \in 1..AesBlock |-> 7], 0).val
Ciphertexts == {<<>>, <<120>>, ForeignToken} \cup {r.token : r \in Range(issued)}

NextApp ==
    \/ Startup
    \/ \E l \in BOOLEAN : HealthCheck(l)
    \/ \E req \in Requests(Plaintexts), iv \in URandomIv : EncryptData(req, iv)
    \/ \E req \in Requests(Ciphertexts) : DecryptData(req)
    \/ \E c \in Ciphertexts : DecryptField(c)

SpecApp == InitApp /\ [][NextApp]_vars

\* The module-level helpers, which build a cipher per call, beside one
\* instance that lives on.
NextField ==
    \/ \E arg \in KeyArgs : Construct(1, arg)
    \/ \E s \in Plaintexts, iv \in URandomIv : Encrypt(1, s, iv)
    \/ \E t \in Ciphertexts : Decrypt(1, t)
    \/ \E s \in Plaintexts, iv \in URandomIv : EncryptField(s, iv)
    \/ \E c \in Ciphertexts : DecryptField(c)
    \/ Tick

SpecField == Init /\ [][NextField]_vars

\* ============================================================ properties
\* The entry of the history that a call refers to.
IssuedBy(i, t) == {r \in Range(issued) : r.inst = i /\ r.token = t}
\* Two keys that differ at most by NUL bytes at the end of the longer.
SameUpToNuls(a, b) ==
    /\ SubSeq(a, 1, Min(Len(a), Len(b))) = SubSeq(b, 1, Min(Len(a), Len(b)))
    /\ \A i \in (Min(Len(a), Len(b)) + 1)..Len(a) : a[i] = 0
    /\ \A i \in (Min(Len(a), Len(b)) + 1)..Len(b) : b[i] = 0

\* C1 -- Round trip: on every instance, whatever calls came before or in
\* between, decrypt of a token that encrypt returned for a non-empty string
\* s on that instance returns exactly s.
C1_RoundTrip ==
    /\ \A r \in Range(issued) :
          r.inst \in DOMAIN ciphers
              => decrypt(ciphers[r.inst], r.token) = Call(Ok(r.plaintext), 1)
    /\ last.op = "decrypt"
          => \A r \in IssuedBy(last.inst, last.arg) : last.res = Call(Ok(r.plaintext), 1)
\* A token issued at an earlier time has been decrypted to its two-character
\* plaintext, one character of which takes two bytes.
C1_Witness ==
    /\ last.op = "decrypt"
    /\ last.res.ok
    /\ last.res.val = <<233, 65>>
    /\ \E r \in IssuedBy(last.inst, last.arg) : r.ts < now

\* C3 (as claimed) -- Cross-key failure: a token of a cipher built from key A
\* is never decrypted by a cipher built from a different key B.
C3_AnyOtherKeyFails ==
    last.op = "decrypt"
        => \A r \in Range(issued) :
              (/\ r.token = last.arg
               /\ r.inst \in DOMAIN ciphers
               /\ ciphers[r.inst].key # ciphers[last.inst].key) => ~last.res.ok
\* C3 (amended) -- Cross-key failure: a token of a cipher built from key A
\* fails with InvalidToken under a cipher built from a key B that differs
\* from A other than by NUL characters at the end; keys that differ only by
\* trailing NUL characters give the same cipher.
C3_CrossKey ==
    /\ \A r \in Range(issued), b \in DOMAIN ciphers :
          (r.inst \in DOMAIN ciphers /\ ~SameUpToNuls(ciphers[r.inst].key, ciphers[b].key))
              => decrypt(ciphers[b], r.token) = Call(Raise("InvalidToken"), 1)
    /\ last.op = "decrypt"
          => \A r \in Range(issued) :
                (/\ r.token = last.arg
                 /\ r.inst \in DOMAIN ciphers
                 /\ ~SameUpToNuls(ciphers[r.inst].key, ciphers[last.inst].key))
                    => last.res = Call(Raise("InvalidToken"), 1)
    /\ \A a \in DOMAIN ciphers, b \in DOMAIN ciphers :
          SameUpToNuls(ciphers[a].key, ciphers[b].key) => ciphers[a].cipher = ciphers[b].cipher
\* A token issued under a generated key has been refused by the cipher of
\* another passphrase.
C3_Witness ==
    /\ last.op = "decrypt"
    /\ last.res.err = "InvalidToken"
    /\ \E r \in Range(issued) :
          /\ r.token = last.arg
          /\ r.inst \in DOMAIN ciphers
          /\ r.inst # last.inst
          /\ ciphers[r.inst].key = Utf8Encode(KeyG)
          /\ ciphers[last.inst].key # ciphers[r.inst].key

\* C4 -- Empty-string short-circuit: encrypt("") and decrypt("") return ""
\* on every instance, raise nothing and do not call the cipher.
C4_EmptyShortCircuit ==
    (last.op \in {"encrypt", "decrypt"} /\ last.arg = <<>>) => last.res = Call(Ok(<<>>), 0)
\* decrypt("") has been called on an instance.
C4_Witness ==
    /\ last.op = "decrypt"
    /\ last.arg = <<>>
    /\ last.inst \in DOMAIN ciphers

\* C7 -- The constructor raises (ValueError, the code's configuration error)
\* when the passphrase is empty or absent both as argument and as
\* ENCRYPTION_KEY, and no instance ever exists without a non-empty key.
C7_NoCipherWithoutKey ==
    /\ \A i \in DOMAIN ciphers : Len(ciphers[i].key) > 0
    /\ (last.op = "init" /\ ~Truthy(last.arg) /\ ~Truthy(environ.ENCRYPTION_KEY))
          => /\ ~last.res.ok
             /\ last.res.err = "ValueError"
             /\ last.inst \notin DOMAIN ciphers
    /\ (last.op = "init" /\ ~last.res.ok)
          => (~Truthy(last.arg) /\ ~Truthy(environ.ENCRYPTION_KEY))
\* The constructor has been called without an argument while ENCRYPTION_KEY
\* was set to the empty string, and has raised.
C7_Witness ==
    /\ last.op = "init"
    /\ last.arg = None
    /\ environ.ENCRYPTION_KEY = <<>>
    /\ last.res.err = "ValueError"
    /\ last.inst \notin DOMAIN ciphers

\* C10 -- Determinism of derivation: two instances constructed from the same
\* passphrase hold bit-identical key material, whatever the order and the
\* times of their construction and whatever was constructed before.
C10_SameKeySameCipher ==
    \A i \in DOMAIN ciphers, j \in DOMAIN ciphers :
        ciphers[i].key = ciphers[j].key => ciphers[i].cipher = ciphers[j].cipher
\* Two instances hold the same passphrase, and the second, constructed
\* after the first had issued a token, has decrypted that token.
C10_Witness ==
    /\ DOMAIN ciphers = {1, 2}
    /\ ciphers[1].key = ciphers[2].key
    /\ last.op = "decrypt"
    /\ last.inst = 2
    /\ last.res.ok
    /\ \E r \in IssuedBy(1, last.arg) : r.ts < now
\* C2 (as claimed) -- Tamper detection: decrypt of any non-empty string
\* that differs from a token t in at least one byte fails with a
\* decryption error.
C2_AnyChangeFails ==
    (last.op = "decrypt" /\ last.arg # last.ref /\ last.arg # <<>>)
        => (~last.res.ok /\ last.res.err = "InvalidToken")
\* C2 (amended) -- Tamper detection: decrypt of a non-empty string x that
\* differs from a token t of encrypt(s) either fails with InvalidToken or
\* returns exactly s; it fails whenever x does not base64-decode to the
\* bytes of t, and it never returns a plaintext other than s.
C2_TamperedNeverForged ==
    (last.op = "decrypt" /\ last.arg # last.ref /\ last.arg # <<>>)
        => /\ ~last.res.ok => last.res.err = "InvalidToken"
           /\ last.res.ok => \A r \in IssuedBy(last.inst, last.ref) : last.res.val = r.plaintext
           /\ urlsafe_b64decode(Utf8Encode(last.arg)) # urlsafe_b64decode(Utf8Encode(last.ref))
                 => ~last.res.ok
\* A token with one bit of one character flipped has been refused.
C2_Witness ==
    /\ last.op = "decrypt"
    /\ last.arg # last.ref
    /\ Len(last.arg) = Len(last.ref)
    /\ IssuedBy(last.inst, last.ref) # {}
    /\ last.res.err = "InvalidToken"

\* C5 -- Expiry decision: is_expired(createdAt, category) returns true if
\* and only if now > createdAt + get_retention_period(category); the
\* comparison is strict.
C5_ExpiredIffPast ==
    policy.op = "is_expired"
        => ((policy.ok /\ policy.expired)
               <=> policy.utcnow > policy.created_at + get_retention_period(policy.category))
\* An activity log that is exactly 90 days old has been found not expired.
C5_Witness ==
    /\ policy.op = "is_expired"
    /\ policy.category = "activity_logs"
    /\ policy.utcnow - policy.created_at = 90
    /\ policy.ok
    /\ ~policy.expired

C8_NoServiceWithoutKey ==
    app.phase = "serving" => app.encryption.set
\* C8 (amended) -- A missing or empty ENCRYPTION_KEY at startup is reported
\* and the service starts without encryption: `encryption` is None exactly
\* when the key is missing or empty, /api/health says so, and /api/encrypt
\* and /api/decrypt answer 500 "Encryption not configured" to every
\* authenticated request without encrypting or decrypting anything.
C8_DegradedService ==
    /\ app.phase # "crashed"
    /\ app.phase = "serving" => (app.encryption.set <=> Truthy(environ.ENCRYPTION_KEY))
    /\ (response.endpoint = "health" /\ response.status = 200)
          => response.encryption_enabled = app.encryption.set
    /\ (/\ response.endpoint \in {"encrypt", "decrypt"}
        /\ response.status \notin {401, 403, 429}
        /\ ~app.encryption.set)
          => /\ response.status = 500
             /\ ~response.success
             /\ response.error = "Encryption not configured"
             /\ ~response.has_value
             /\ response.cipher_calls = 0
\* The service runs without a key and has answered an authenticated
\* /api/encrypt request with 500.
C8_Witness ==
    /\ app.phase = "serving"
    /\ ~Truthy(environ.ENCRYPTION_KEY)
    /\ response.endpoint = "encrypt"
    /\ response.status = 500

\* C9 -- A decryption failure is surfaced: decrypt and decrypt_field raise
\* the cipher's error, and /api/decrypt answers a non-empty ciphertext that
\* fails authentication with success false, status 400 and no 'decrypted'
\* value.
C9_FailureSurfaced ==
    /\ (/\ response.endpoint = "decrypt"
        /\ response.status \notin {401, 403, 429, 500}
        /\ response.arg \notin {Missing, <<>>}
        /\ ~Fernet_decrypt(app.encryption.cipher, Utf8Encode(response.arg)).ok)
          => /\ response.status = 400
             /\ ~response.success
             /\ ~response.has_value
             /\ response.exc = "InvalidToken"
    /\ (/\ last.op = "decrypt_field"
        /\ last.arg # <<>>
        /\ Truthy(environ.ENCRYPTION_KEY)
        /\ ~Fernet_decrypt(DataEncryption_init(None).self.cipher, Utf8Encode(last.arg)).ok)
          => (~last.res.ok /\ last.res.err = "InvalidToken")
    /\ app.encryption.set
          => \A c \in {ForeignToken, <<120>>} :
                decrypt(app.encryption, c) = Call(Raise("InvalidToken"), 1)
\* /api/decrypt has answered a token of another key with 400, and
\* decrypt_field has raised on one.
C9_Witness ==
    /\ response.endpoint = "decrypt"
    /\ response.arg = ForeignToken
    /\ response.status = 400
    /\ last.op = "decrypt_field"
    /\ last.arg = ForeignToken
    /\ last.res.err = "InvalidToken"

\* The passphrase under which an entry of the history was issued: that of
\* its instance, or ENCRYPTION_KEY for the module-level helper (instance 0).
KeyOf(r) ==
    IF r.inst = 0 THEN Utf8Encode(EnvGet("ENCRYPTION_KEY", <<>>))
    ELSE IF r.inst \in DOMAIN ciphers THEN ciphers[r.inst].key
    ELSE <<>>

\* C11 -- Cross-instance round trip: a token of one instance decrypts to its
\* plaintext on any instance constructed later from the same passphrase; in
\* particular decrypt_field(encrypt_field(s)) = s while ENCRYPTION_KEY keeps
\* its non-empty value, though each helper builds a cipher per call.
C11_CrossInstanceRoundTrip ==
    /\ (last.op = "decrypt_field" /\ Truthy(environ.ENCRYPTION_KEY))
          => \A r \in Range(issued) :
                (r.token = last.arg /\ KeyOf(r) = Utf8Encode(environ.ENCRYPTION_KEY))
                    => last.res = Call(Ok(r.plaintext), 1)
    /\ last.op = "decrypt"
          => \A r \in Range(issued) :
                (r.token = last.arg /\ KeyOf(r) = ciphers[last.inst].key)
                    => last.res = Call(Ok(r.plaintext), 1)
\* decrypt_field has returned the plaintext of a token that encrypt_field
\* issued at an earlier time.
C11_Witness ==
    /\ last.op = "decrypt_field"
    /\ last.res.ok
    /\ last.res.val = <<233, 65>>
    /\ \E r \in IssuedBy(0, last.arg) : r.ts < now

\* ------------------------------------------------------------------ C12
\* The IV field of a token: the AesBlock bytes after the version byte and
\* the timestamp.
TokenIv(t) == SubSeq(urlsafe_b64decode(Utf8Encode(t)), 2 + TsLen, 1 + TsLen + AesBlock)
\* A step in which encrypt is called again on the plaintext of the token
\* issued before it, by an instance holding the same key.
SecondEncrypt ==
    /\ last'.op = "encrypt"
    /\ last' # last \/ issued' # issued
    /\ Len(issued) = 1 /\ Len(issued') = 1
    /\ last'.res.val = issued'[1].token
    /\ issued'[1].plaintext = issued[1].plaintext
    /\ issued[1].inst \in DOMAIN ciphers
    /\ ciphers[issued[1].inst].key = ciphers[last'.inst].key

\* C12 as stated: two encrypt calls on the same non-empty plaintext under the
\* same key always return two different tokens.
C12_AlwaysDifferent ==
    [][SecondEncrypt => issued'[1].token # issued[1].token]_vars

\* C12 amended: every token issued by encrypt carries the IV drawn during
\* its own call, and two encrypt calls on the same non-empty plaintext under
\* the same key return different tokens whenever their IVs or their
\* timestamps differ.
C12_FreshNonce ==
    /\ [](\A r \in Range(issued) : TokenIv(r.token) = r.iv)
    /\ [][(SecondEncrypt /\ (issued'[1].iv # issued[1].iv \/ issued'[1].ts # issued[1].ts))
              => issued'[1].token # issued[1].token]_vars

\* Two instances with the same key have encrypted the same plaintext in the
\* same second with different IVs.
C12_Witness ==
    /\ last.op = "encrypt" /\ last.inst = 2 /\ last.arg = <<233, 65>>
    /\ 1 \in DOMAIN ciphers /\ 2 \in DOMAIN ciphers
    /\ ciphers[1].key = ciphers[2].key
    /\ \E r \in Range(issued) : r.inst = 2 /\ r.token = last.res.val /\ r.iv # <<7, 7>>

\* ------------------------------------------------------------------ C13
\* C13: for a non-empty plaintext s, encrypt(s) returns a non-empty token
\* that differs from s; encrypt returns the empty string only when the
\* plaintext is empty.
C13_NotIdentity ==
    last.op = "encrypt"
        => /\ last.res.ok
           /\ last.arg # <<>> => (last.res.val # <<>> /\ last.res.val # last.arg)
           /\ last.res.val = <<>> => last.arg = <<>>

\* encrypt has returned a token for a non-empty plaintext.
C13_Witness ==
    /\ last.op = "encrypt" /\ last.arg = <<233>>
    /\ last.res.ok /\ Len(last.res.val) > Len(last.arg)

\* ------------------------------------------------------------------ C14
\* C14: get_retention_period and is_expired raise no error for any category
\* and any creation timestamp; every call returns a duration or a boolean.
C14_NoErrors ==
    policy.op \in {"get_retention_period", "is_expired"} => policy.ok

\* ------------------------------------------------------------------ C15
\* What a call appended to the log.
Appended == SubSeq(deletion_log, Len(cleanup.before) + 1, Len(deletion_log))
IsPrefix(a, b) == Len(a) <= Len(b) /\ SubSeq(b, 1, Len(a)) = a
NotArchived(c) == c # "archived_data"

\* C15: one run of schedule_retention_cleanup makes a real (dry_run = False)
\* deletion pass for every DataCategory except ARCHIVED_DATA, exactly once
\* each, never scans or deletes ARCHIVED_DATA, and adds no deletion_log
\* entry whose category is archived_data.
C15_CleanupSkipsArchived ==
    cleanup.op = "schedule_retention_cleanup"
        => /\ [k \in 1..Len(cleanup.passes) |-> cleanup.passes[k].category]
                  = SelectSeq(DataCategoryOrder, NotArchived)
           /\ \A k \in 1..Len(cleanup.passes) : ~cleanup.passes[k].dry_run
           /\ IsPrefix(cleanup.before, deletion_log)
           /\ \A k \in 1..Len(Appended) : Appended[k].category # "archived_data"

\* A cleanup run has deleted records of every category it visits but one,
\* whose scan failed, on top of a log that already held an entry.
C15_Witness ==
    /\ cleanup.op = "schedule_retention_cleanup"
    /\ Len(cleanup.before) > 0
    /\ Len(Appended) = 4
    /\ \E k \in 1..Len(cleanup.passes) : ~cleanup.passes[k].ok

\* ------------------------------------------------------------------ C16
\* C16: delete_expired_data(category, dry_run=True), and the call that leaves
\* dry_run out, returns the number of records scan_expired_data returned and
\* leaves deletion_log unchanged.
C16_DryRunCountsOnly ==
    (cleanup.op = "delete_expired_data" /\ cleanup.dry_run \in {Omitted, <<TRUE>>})
        => /\ deletion_log = cleanup.before
           /\ cleanup.scan.ok => (cleanup.ok /\ cleanup.count = Len(cleanup.scan.val))

\* A call without dry_run has counted two records over a log with an entry.
C16_Witness ==
    /\ cleanup.op = "delete_expired_data" /\ cleanup.dry_run = Omitted
    /\ cleanup.ok /\ cleanup.count = 2
    /\ Len(deletion_log) > 0

\* ------------------------------------------------------------------ C17
\* C17: delete_expired_data(category, dry_run=False) appends, for every
\* record the scan returned and in scan order, exactly one deletion_log entry
\* with that record's id, the category value and a deletion timestamp; the
\* returned count is the number of entries appended; and deletion_log is
\* append-only across all operations.
C17_AuditTrail ==
    /\ []((cleanup.op = "delete_expired_data" /\ cleanup.dry_run = <<FALSE>>
                /\ cleanup.scan.ok)
            => /\ IsPrefix(cleanup.before, deletion_log)
               /\ Len(Appended) = Len(cleanup.scan.val)
               /\ cleanup.ok /\ cleanup.count = Len(Appended)
               /\ \A k \in 1..Len(Appended) :
                     /\ Appended[k].record_id = cleanup.scan.val[k]
                     /\ Appended[k].category = cleanup.category
                     /\ Appended[k].deleted_at \in Today..UtcNow)
    /\ [][IsPrefix(deletion_log, deletion_log')]_vars

\* A deletion has logged two records after an entry that was there before.
C17_Witness ==
    /\ cleanup.op = "delete_expired_data" /\ cleanup.dry_run = <<FALSE>>
    /\ cleanup.scan = Ok(<<"r2", "r1">>)
    /\ Len(cleanup.before) > 0 /\ Len(deletion_log) = Len(cleanup.before) + 2

\* ------------------------------------------------------------------ C18
\* The instance a caller gets from the key alone, and the results of the
\* policy's methods over the table as the class defines it.
Alone(key) == InitKey(key).self
PeriodAlone(category) == DictGet(RETENTION_PERIODS, category, timedelta(365))

\* C18: no operation changes the key or the cipher of an instance that
\* exists, or RETENTION_PERIODS; in every interleaving of encrypt, decrypt,
\* get_retention_period and is_expired both stay as they were and each call
\* returns what it returns when it runs alone.
C18_SharedStateImmutable ==
    /\ [][/\ RetentionPolicy' = RetentionPolicy
          /\ \A i \in DOMAIN ciphers : i \in DOMAIN ciphers' /\ ciphers'[i] = ciphers[i]]_vars
    /\ [](/\ (last.op = "encrypt" /\ last.arg # <<>>)
                => /\ issued # <<>>
                   /\ last.res = encrypt(Alone(ciphers[last.inst].key), last.arg,
                                         issued[Len(issued)].iv, issued[Len(issued)].ts)
          /\ last.op = "decrypt"
                => last.res = decrypt(Alone(ciphers[last.inst].key), last.arg)
          /\ policy.op = "get_retention_period"
                => policy.ok /\ policy.days = PeriodAlone(policy.category)
          /\ policy.op = "is_expired"
                => [ok |-> policy.ok, err |-> policy.err, expired |-> policy.expired]
                      = ExpiredAfter(DatetimeAdd(policy.created_at,
                                                 PeriodAlone(policy.category)),
                                     policy.utcnow))

\* The second instance has decrypted a token of the first after calls on the
\* policy and a later encrypt call of its own.
C18_Witness ==
    /\ last.op = "decrypt" /\ last.inst = 2 /\ last.res.ok /\ last.res.val = <<233>>
    /\ policy.op = "is_expired" /\ policy.ok
    /\ \E r \in Range(issued) : r.inst = 1 /\ r.token = last.arg /\ r.ts < now

\* ------------------------------------------------------------------ C19
\* The key a request supplies: X-API-Key, or Authorization when X-API-Key is
\* absent or empty, without a leading "Bearer "; and the key the process is
\* configured with: ADMIN_TOKEN, or API_KEY when ADMIN_TOKEN is absent or
\* empty.
SentKey ==
    IF request.headers.x_api_key \notin {None, <<>>} THEN request.headers.x_api_key
    ELSE request.headers.authorization
SuppliedKey ==
    IF SentKey # None /\ Len(SentKey) >= 7 /\ SubSeq(SentKey, 1, 7) = Bearer
    THEN SubSeq(SentKey, 8, Len(SentKey))
    ELSE SentKey
ConfiguredKey ==
    IF environ.ADMIN_TOKEN \notin {None, <<>>} THEN environ.ADMIN_TOKEN ELSE environ.API_KEY
Present(k) == k \notin {None, <<>>}
HandlerRan == response.status \notin {401, 403, 429}

\* C19: a handler wrapped by require_api_key runs only when the request
\* supplies a key (X-API-Key or Authorization, an optional "Bearer " prefix
\* removed) equal to the configured ADMIN_TOKEN or, without one, API_KEY; the
\* request is rejected with 401 when the supplied or the configured key is
\* missing or empty, and with 403 when both are present but differ.
C19_KeyRequired ==
    response.endpoint \in {"encrypt", "decrypt"}
        => /\ HandlerRan => (Present(SuppliedKey) /\ SuppliedKey = ConfiguredKey)
           /\ ~request.over_limit
                 => /\ response.status = 401
                         <=> (~Present(SuppliedKey) \/ ~Present(ConfiguredKey))
                    /\ response.status = 403
                         <=> (Present(SuppliedKey) /\ Present(ConfiguredKey)
                                 /\ SuppliedKey # ConfiguredKey)

\* A handler has run for a request whose key came in Authorization with the
\* Bearer prefix and matched API_KEY.
C19_Witness ==
    /\ response.endpoint = "decrypt" /\ response.status = 400
    /\ request.headers = [x_api_key |-> <<>>, authorization |-> Bearer \o TokA]
    /\ environ.ADMIN_TOKEN = None /\ environ.API_KEY = TokA

\* ------------------------------------------------------------------ C20
\* The request carries a signature that is the HMAC-SHA256 hex digest of its
\* raw body under the webhook secret.
SignatureSent == OrElse(request.headers.x_onetrust_signature, request.headers.x_webhook_signature)
SignatureVerifies ==
    /\ Truthy(SignatureSent)
    /\ Utf8Encode(SignatureSent)
          = HmacHexDigest(Utf8Encode(EnvGet("WEBHOOK_SECRET", <<>>)), Utf8Encode(request.body))

\* C20: the OneTrust webhook dispatches an event to a handler only if the
\* request's signature verifies as the HMAC-SHA256 of the raw body under the
\* webhook secret; every request that does not pass this check is answered
\* 401 and no handler runs.
C20_SignatureRequired ==
    (response.endpoint = "webhook" /\ ~SignatureVerifies)
        => (response.status = 401 /\ response.handler = "none")

\* ------------------------------------------------------------------ C28
\* C28: an exception raised while one category is cleaned is caught and does
\* not stop the run of schedule_retention_cleanup: every later category but
\* the archived one is still processed, the deletion_log entries appended
\* before are kept, and the run returns normally.
C28_ErrorIsolated ==
    cleanup.op = "schedule_retention_cleanup"
        => /\ cleanup.ok
           /\ Len(cleanup.passes) = Len(SelectSeq(DataCategoryOrder, NotArchived))
           /\ IsPrefix(cleanup.before, deletion_log)
           /\ Len(Appended)
                 = SumSeq([k \in 1..Len(cleanup.passes) |->
                              IF cleanup.passes[k].ok THEN cleanup.passes[k].count ELSE 0])

\* The pass over the second category has failed after the first had logged
\* a deletion, and the passes after it have logged theirs.
C28_Witness ==
    /\ cleanup.op = "schedule_retention_cleanup"
    /\ Len(cleanup.passes) = 5
    /\ cleanup.passes[1].ok /\ cleanup.passes[1].count = 1
    /\ ~cleanup.passes[2].ok
    /\ cleanup.passes[5].ok /\ cleanup.passes[5].count = 1
    /\ Len(Appended) = 4

\* ------------------------------------------------------------------ C29
\* C29: a non-empty encryption_key argument alone gives the cipher key and
\* ENCRYPTION_KEY is ignored; with the argument None or empty the key comes
\* from ENCRYPTION_KEY; so a cipher built from the explicit key k and one
\* built without argument while ENCRYPTION_KEY = k decrypt each other's
\* tokens.
C29_KeyPrecedence ==
    /\ (last.op = "init" /\ Truthy(last.arg))
          => /\ last.res.ok
             /\ ciphers[last.inst] = InitKey(Utf8Encode(last.arg)).self
    /\ (last.op = "init" /\ ~Truthy(last.arg) /\ last.res.ok)
          => ciphers[last.inst] = InitKey(Utf8Encode(environ.ENCRYPTION_KEY)).self
    /\ (last.op = "decrypt" /\ DOMAIN ciphers = {1, 2}
            /\ ciphers[1].key = Utf8Encode(environ.ENCRYPTION_KEY))
          => \A r \in Range(issued) :
                (r.token = last.arg /\ r.inst # last.inst)
                    => last.res = Call(Ok(r.plaintext), 1)

\* The instance built without argument has decrypted a token of the one
\* built from the explicit key, which equals ENCRYPTION_KEY.
C29_Witness ==
    /\ last.op = "decrypt" /\ last.inst = 2 /\ last.res.ok /\ last.res.val = <<233, 65>>
    /\ DOMAIN ciphers = {1, 2}
    /\ ciphers[1].key = Utf8Encode(environ.ENCRYPTION_KEY)
    /\ \E r \in IssuedBy(1, last.arg) : TRUE

\* ------------------------------------------------------------------ C30
\* Two successive is_expired calls for the same category, the first of which
\* found its record expired.
ExpiredThenAsked ==
    /\ policy.op = "is_expired" /\ policy.ok /\ policy.expired
    /\ policy'.op = "is_expired" /\ policy'.category = policy.category

\* C30: for a fixed creation date and category, once is_expired has returned
\* true it returns true at every later time of a clock that does not go
\* back; and for a fixed time and category, when a record is expired every
\* record created earlier is expired too.
C30_ExpiryMonotone ==
    /\ [][(ExpiredThenAsked /\ policy'.created_at = policy.created_at
              /\ policy'.utcnow >= policy.utcnow)
            => (policy'.ok /\ policy'.expired)]_vars
    /\ [][(ExpiredThenAsked /\ policy'.utcnow = policy.utcnow
              /\ policy'.created_at < policy.created_at)
            => (policy'.ok /\ policy'.expired)]_vars

\* An activity log that expired on the first day has been found expired on
\* the next day as well.
C30_Witness ==
    /\ policy.op = "is_expired" /\ policy.category = "activity_logs"
    /\ policy.created_at = Today - 91
    /\ policy.utcnow = Today + 1
    /\ policy.ok /\ policy.expired

\* C21: ConsentManager keeps no consent state.  Whatever request_consent,
\* record_consent and revoke_consent calls came before, the object is as
\* constructed, get_consent_status returns 'pending', get_all_consents and
\* consent_audit_log return [], revoke_consent returns True, and
\* record_consent returns status 'granted' exactly when granted is true and
\* 'denied' otherwise.
C21_NoConsentState ==
    LET call == consentManager.call IN
    /\ consentManager.self = ConsentManager_init(UserId)
    /\ call.op = "get_consent_status" => call.status = "pending"
    /\ call.op \in {"get_all_consents", "consent_audit_log"} => call.list = <<>>
    /\ call.op = "revoke_consent" => call.returned = TRUE
    /\ call.op = "record_consent" =>
           /\ call.record.status = "granted" <=> call.granted
           /\ call.record.status = "denied" <=> ~call.granted
C21_Witness ==
    /\ consentManager.called = ConsentChanging
    /\ consentManager.call.op = "get_consent_status"
    /\ consentManager.call.status = "pending"

\* C22: has_consent(t) is true exactly when the most recent grant_consent or
\* revoke_consent call for t on the object was grant_consent: false for every
\* type, ESSENTIAL included, on a new object, false after a revoke, and true
\* again after a later grant.
C22_MostRecentCall ==
    /\ \A t \in ConsentType :
           has_consent(userConsent.self, t) <=> MostRecent(userConsent.recent[t]) = "grant"
    /\ userConsent.call.op = "has_consent" =>
           (userConsent.call.returned <=>
                MostRecent(userConsent.recent[userConsent.call.consent_type]) = "grant")
C22_Witness ==
    /\ userConsent.call = [op |-> "has_consent", consent_type |-> "essential",
                           returned |-> TRUE]
    /\ userConsent.recent["essential"] = <<"revoke", "grant">>
    /\ MostRecent(userConsent.recent["analytics"]) = "revoke"
    /\ ~has_consent(userConsent.self, "analytics")
    /\ ~has_consent(userConsent.self, "third_party")

\* C27: revoke_consent(t) for a type that was never granted changes nothing:
\* no record is created and has_consent(t) stays false; and a grant_consent
\* or revoke_consent of t leaves the records of every other type as they were.
C27_RevokeNoOp ==
    [][LET call == userConsent'.call
           self == userConsent.self
           after == userConsent'.self
       IN  /\ (call.op = "revoke_consent" /\ call.consent_type \notin DOMAIN self.consents)
                  => after = self /\ ~has_consent(after, call.consent_type)
           /\ call.op \in {"grant_consent", "revoke_consent"} =>
                  \A u \in ConsentType \ {call.consent_type} :
                      /\ u \in DOMAIN self.consents <=> u \in DOMAIN after.consents
                      /\ u \in DOMAIN self.consents => after.consents[u] = self.consents[u]
      ]_vars
C27_Witness ==
    /\ userConsent.call.op = "revoke_consent"
    /\ userConsent.call.consent_type = "marketing"
    /\ DOMAIN userConsent.self.consents = {"essential", "analytics"}
    /\ has_consent(userConsent.self, "essential")
    /\ ~has_consent(userConsent.self, "analytics")

\* How often a call was made in the last use of the database.
CallCount(name) ==
    Cardinality({i \in 1..Len(Database.calls) : Database.calls[i] = name})
\* The body of the last get_cursor raised: the failing statement was reached.
BodyRaised == gdpr.failing > 0 /\ Len(Database.statements) = gdpr.failing

\* C24: Database.get_cursor's transaction protocol.  The connection is
\* committed if and only if the with-body finishes without an exception; if
\* the body raises, the connection is rolled back and the same exception
\* propagates; either way the cursor is closed and the connection is returned
\* to the pool exactly once, so that after any sequence of completed uses no
\* connection is checked out.
C24_TransactionProtocol ==
    /\ Database.checked_out = 0
    /\ Database.cursors = 0
    /\ Database.calls # <<>> =>
           /\ CallCount("getconn") = 1 /\ CallCount("cursor") = 1
           /\ CallCount("close") = 1 /\ CallCount("putconn") = 1
           /\ CallCount("commit") + CallCount("rollback") = 1
           /\ SubSeq(Database.calls, Len(Database.calls) - 1, Len(Database.calls))
                  = <<"close", "putconn">>
           /\ CallCount("commit") = 1 <=> ~BodyRaised
           /\ Database.work = NoTables
           /\ BodyRaised =>
                  /\ CallCount("rollback") = 1
                  /\ Database.tables = gdpr.before
                  /\ gdpr.op \in {"anonymize_user_data", "execute_query"}
                         => gdpr.outcome = Raised("DatabaseError")
C24_Witness ==
    /\ gdpr.op = "execute_query"
    /\ gdpr.outcome = Raised("DatabaseError")
    /\ Database.calls = <<"getconn", "cursor", "rollback", "close", "putconn">>
    /\ Database.tables.data_deletions # <<>>
    /\ Database.checked_out = 0

\* The tables after the five writes of anonymize_user_data, made at a given
\* time on given tables.
Anonymized(t, user_id, utcnow) ==
    LET user_email == t.users[user_id].email
    IN  InsertAuditLog(
            InsertDeletion(
                ScrubAuditLogs(
                    AnonymizeSessions(AnonymizeUsers(t, user_id, user_email),
                                      user_id, user_email),
                    user_id),
                user_id, user_email, utcnow),
            AuditRow(user_id, "gdpr_anonymization", Null))
StatementsSent == [i \in 1..Len(Database.statements) |-> Database.statements[i].sql]

\* C26: anonymize_user_data is all-or-nothing.  When it returns True its five
\* writes (users update, player_sessions update, audit_logs scrub,
\* data_deletions insert, audit_logs insert) are committed together; when a
\* statement raises, all are rolled back and the exception propagates; when
\* the user does not exist it returns False and has issued no write.
C26_AllOrNothing ==
    gdpr.op = "anonymize_user_data" =>
        LET known == gdpr.user_id \in DOMAIN gdpr.before.users
            sent == IF known THEN 6 ELSE 1
        IN  /\ gdpr.outcome.ok <=> gdpr.failing \notin 1..sent
            /\ gdpr.outcome = Returned(TRUE) =>
                   /\ known
                   /\ StatementsSent = <<"select users", "update users",
                                         "update player_sessions", "update audit_logs",
                                         "insert data_deletions", "insert audit_logs">>
                   /\ CallCount("commit") = 1 /\ CallCount("rollback") = 0
                   /\ Database.tables =
                          Anonymized(gdpr.before, gdpr.user_id,
                                     Database.tables.data_deletions[
                                         Len(Database.tables.data_deletions)].completed_at)
            /\ ~gdpr.outcome.ok =>
                   /\ gdpr.outcome = Raised("DatabaseError")
                   /\ CallCount("rollback") = 1 /\ CallCount("commit") = 0
                   /\ Database.tables = gdpr.before
            /\ (gdpr.outcome.ok /\ ~known) =>
                   /\ gdpr.outcome = Returned(FALSE)
                   /\ StatementsSent = <<"select users">>
                   /\ Database.tables = gdpr.before
            /\ gdpr.outcome = Returned(FALSE) => ~known
C26_Witness ==
    /\ gdpr.op = "anonymize_user_data"
    /\ gdpr.user_id = UserOne
    /\ gdpr.failing = 5
    /\ gdpr.outcome = Raised("DatabaseError")
    /\ Len(Database.statements) = 5
    /\ CallCount("rollback") = 1
    /\ Database.tables = gdpr.before

\* The keys of the corrections of the last call, and its update statements.
CorrectionKeys == {gdpr.corrections[i].key : i \in 1..Len(gdpr.corrections)}
Corrected(f) == gdpr.corrections[CHOOSE i \in 1..Len(gdpr.corrections) :
                                     gdpr.corrections[i].key = f].value
UpdatesSent == {s \in Range(Database.statements) : s.sql = "update users"}

\* C23: rectify_user_data updates only the whitelisted fields username and
\* email.  Every other key of corrections is ignored and never reaches the
\* UPDATE statement; and with no whitelisted key the call returns False
\* without opening a cursor or writing an audit-log entry.
C23_WhitelistOnly ==
    gdpr.op = "rectify_user_data" =>
        LET whitelisted == CorrectionKeys \cap {"username", "email"}
        IN  /\ whitelisted = {} =>
                   /\ gdpr.outcome = Returned(FALSE)
                   /\ Database.calls = <<>>
                   /\ Database.statements = <<>>
                   /\ Database.tables = gdpr.before
            /\ \A s \in UpdatesSent :
                   /\ Range(s.fields) = whitelisted
                   /\ Len(s.values) = Len(s.fields) + 1
                   /\ \A i \in 1..Len(s.fields) : s.values[i] = Corrected(s.fields[i])
            /\ DOMAIN Database.tables.users = DOMAIN gdpr.before.users
            /\ \A id \in DOMAIN gdpr.before.users :
                   \A f \in DOMAIN gdpr.before.users[id] :
                       \/ Database.tables.users[id][f] = gdpr.before.users[id][f]
                       \/ /\ id = gdpr.user_id
                          /\ f \in whitelisted
                          /\ Database.tables.users[id][f] = Corrected(f)
            /\ Database.tables.audit_logs # gdpr.before.audit_logs
                   => gdpr.outcome = Returned(TRUE) /\ whitelisted # {}
C23_Witness ==
    /\ gdpr.op = "rectify_user_data"
    /\ gdpr.user_id = UserOne
    /\ CorrectionKeys = {"password_hash", "username", "is_admin"}
    /\ gdpr.outcome = Returned(TRUE)
    /\ UserOne \in DOMAIN Database.tables.users
    /\ Database.tables.users[UserOne].username = Corrected("username")
    /\ Database.tables.users[UserOne].password_hash = gdpr.before.users[UserOne].password_hash
    /\ Len(Database.statements) = 2

\* The pools the threads took a connection from.
PoolsUsed == {threads[t].conn : t \in Threads} \ {NoPool}

\* C25: the connection pool is created at most once per process: whatever
\* the interleaving of the get_connection and initialize_pool calls made
\* while Database._pool is None, one SimpleConnectionPool is constructed and
\* every caller uses it.
C25_PoolOnce ==
    /\ Database.pools <= 1
    /\ Cardinality(PoolsUsed) <= 1
    /\ \A t \in Threads : threads[t].pc = "done" /\ threads[t].op = "get_connection"
                              => threads[t].put = threads[t].conn
====
